---------------------------- MODULE Spec2Model ----------------------------
(***************************************************************************)
(* A model of the tapestry controller: the tiling controller and its       *)
(* per-panel dispatch threads (controller.py, device.py, cli.py), the      *)
(* geometry kernel (geometry.py, drawing.py), the marker encoder and       *)
(* decoder (qr_generation.py, position_detection.py) and the               *)
(* rectangularity score (perspective_correction.py).                       *)
(*                                                                         *)
(* The module holds several specifications over one set of variables.      *)
(* Each specification drives one group of variables and leaves the other   *)
(* groups at their idle values:                                            *)
(*   Spec        send_image / clear_devices and their threads              *)
(*   SpecGeom    geometry.Rectangle.bounding_rectangle                     *)
(*   SpecDrawing drawing.Rectangle.bounding_rectangle (rotated rectangles) *)
(*   SpecTile    the tiling arithmetic of send_image                       *)
(*   SpecQR      encoder -> photograph -> decoder -> layout                *)
(*   SpecQuad    rotation and rectangularity of a 4-corner polygon         *)
(*   SpecEnc     one call of the marker encoder                            *)
(***************************************************************************)
EXTENDS Integers, Sequences, FiniteSets, TLC

VARIABLES
    \* ---- send_image / clear_devices (controller.py, device.py, cli.py)
    devices,     \* config.devices: the hosts 1..n, in configuration order
    devFail,     \* per host, the transport step that fails: none/query/push/clear
    debugDir,    \* send_image's debug_output_dir is set
    saveFailAt,  \* the debug save that raises: -1 none, 0 scaled image, i device i
    op,          \* the controller call in progress: none/send/clear
    cpc,         \* the calling thread: idle/prep/loop/join/returned/raised
    loopi,       \* index of the next device of the start loop
    threads,     \* the list `threads`: started tasks, in start order
    joinj,       \* index of the next thread to join
    tpc,         \* per host, its task: idle/query/push/clearing/done/failed
    queries,     \* per host, GET / requests issued
    pushes,      \* per host, POST /draw or /clear requests issued
    errLog,      \* hosts for which draw printed "Error drawing to ..."
    ret,         \* what the call handed to its caller
    cliOut,      \* what cli.main printed after send_image
    \* ---- geometry.Rectangle.bounding_rectangle (geometry.py)
    rects,       \* the argument `rectangles`
    bres,        \* the result: NotCalled, Returned(rectangle) or Raised("ValueError")
    \* ---- drawing.Rectangle.bounding_rectangle (drawing.py)
    drects,      \* the argument `rectangles`, each with a rotation_deg
    dbres,       \* the result, as bres
    \* ---- a 4-corner polygon (position_detection.py, perspective_correction.py)
    corners,     \* the argument `corners`: a list of (x, y) points
    rotres,      \* calculate_qr_rotation_from_corners(corners), in millidegrees
    scoreres,    \* calculate_rectangularity_score(corners), in thousandths
    \* ---- markers: encoder, photograph, decoder, layout (qr_generation.py,
    \* ---- position_detection.py)
    scene,       \* the barcodes in front of the camera, each with its placement
    qrImages,    \* per barcode shown by a panel, the encoder call's outcome
    photo,       \* what cv2 reads from the photograph: decoded_info and points
    detected,    \* detect_qr_positions(photo): a list of QRPositionData
    positions,   \* calculate_physical_positions(detected, config)
    \* ---- the tiling arithmetic of send_image (controller.py)
    tileLayout,  \* device_rects_mm: the devices' rectangles in millimetres
    tileImage,   \* image.size of the source image
    scaled,      \* the scaled image's size, mm_to_px_ratio and bounding_rect_mm
    tiles,       \* per device so far: device_rect_px and the cropped tile
    \* ---- one call of the marker encoder (qr_generation.py)
    encArgs,     \* the arguments ip, screen_type_name, width, height
    encImage,    \* generate_positioning_qr_image(...): the image or the error
    \* correct_perspective_distortion
    perspIn,     \* qr_data_list
    fitCalls,    \* the calls of cv2.findHomography made, by number of point pairs
    perspOut,    \* the list returned, or the error raised
    \* webui: /positioning/analyze and /positioning/apply
    recalPhoto,  \* the barcodes cv2 reads in the uploaded photograph
    dhcpIps,     \* the device ips discovered from DHCP
    lastImage,   \* whether last_image_state holds an image
    ctlConfig,   \* controller.config.devices
    devicesFile, \* the content of devices.yaml
    analysis,    \* the response of /positioning/analyze
    applied,     \* the response of /positioning/apply
    \* webui.screensaver.ScreensaverManager
    ssActive,    \* self._active
    ssThread,    \* self._thread: whether a worker thread is held
    ssCurrent,   \* self._current_config
    ssStarted,   \* the number of worker threads started so far
    ssArg,       \* the config of the last call of start
    ssCall,      \* the outcome of the last call of start
    \* the image objects of send_image and who touches them
    scaledMade,  \* the number of times the scaled image has been produced
    taskAccess,  \* per draw task, the image objects it has read or written
    cropImage,   \* size of the scaled image handed to _crop_device_section
    cropRect,    \* the pixel rectangle handed to it
    cropOut,     \* what the call produced
    last_image_state, \* which image the web UI holds as the last one sent
    flash,       \* the message the upload handler flashed
    mgr_active,  \* ScreensaverManager._active
    mgr_stop_event, \* _stop_event: the number of the Event it holds, 0 for None
    mgr_thread,  \* _thread: the number of the thread it holds, 0 for None
    mgr_current_config, \* whether _current_config holds a configuration
    event_set,   \* for each Event created, whether it is set
    wpc,         \* where each worker thread is in _worker
    wsent,       \* how many images each worker has sent
    stop_pc,     \* where a call of stop() is
    stopped,     \* the workers whose stop() has returned
    sent_after_stop, \* the workers that entered image_sender after their stop() returned
    mgr_call,    \* the outcome of the last call on the manager
    sp_process,  \* the subprocess: "none", "running" or "exited"
    sp_unwritten, \* the lines the subprocess has yet to write
    sp_pipe,     \* the lines written and not yet read by the output thread
    output_queue, \* StreamingProcess.output_queue
    sp_finished, \* StreamingProcess.finished
    reader_pc,   \* where the output thread is
    stopper_pc,  \* where a call of stop_process is
    client_pc,   \* where the streaming client's generator is
    delivered,   \* the lines sent to the client
    placed,      \* every line ever put on the output queue
    events,      \* the number of 'finished' events sent
    heartbeat,   \* whether a heartbeat has been sent
    device_statuses, \* DeviceMonitor._device_statuses
    last_query   \* for each monitored host, what its info query did in its last poll

sendVars == <<devices, devFail, debugDir, saveFailAt, op, cpc, loopi, threads,
              joinj, tpc, queries, pushes, errLog, ret, cliOut>>

geomVars == <<rects, bres>>

drawingVars == <<drects, dbres>>

quadVars == <<corners, rotres, scoreres>>

qrVars == <<scene, qrImages, photo, detected, positions>>

tileVars == <<tileLayout, tileImage, scaled, tiles>>

encVars == <<encArgs, encImage>>

perspVars == <<perspIn, fitCalls, perspOut>>

recalVars == <<recalPhoto, dhcpIps, lastImage, ctlConfig, devicesFile, analysis, applied>>

saverVars == <<ssActive, ssThread, ssCurrent, ssStarted, ssArg, ssCall>>

memVars == <<scaledMade, taskAccess, last_image_state, flash>>

cropVars == <<cropImage, cropRect, cropOut>>

workerVars == <<mgr_active, mgr_stop_event, mgr_thread, mgr_current_config, event_set, wpc, wsent, stop_pc, stopped, sent_after_stop, mgr_call>>

streamVars == <<sp_process, sp_unwritten, sp_pipe, output_queue, sp_finished, reader_pc, stopper_pc, client_pc, delivered, placed, events, heartbeat>>

monitorVars == <<device_statuses, last_query>>

vars == <<sendVars, geomVars, drawingVars, quadVars, qrVars, tileVars, encVars, perspVars, recalVars, saverVars, memVars, cropVars, workerVars, streamVars, monitorVars>>

\* What each group's actions leave alone.
notSend == <<geomVars, drawingVars, quadVars, qrVars, tileVars, encVars, perspVars, recalVars, saverVars, cropVars, workerVars, streamVars, monitorVars>>
notGeom == <<sendVars, drawingVars, quadVars, qrVars, tileVars, encVars, perspVars, recalVars, saverVars, memVars, cropVars, workerVars, streamVars, monitorVars>>
notDrawing == <<sendVars, geomVars, quadVars, qrVars, tileVars, encVars, perspVars, recalVars, saverVars, memVars, cropVars, workerVars, streamVars, monitorVars>>
notQuad == <<sendVars, geomVars, drawingVars, qrVars, tileVars, encVars, perspVars, recalVars, saverVars, memVars, cropVars, workerVars, streamVars, monitorVars>>
notQR == <<sendVars, geomVars, drawingVars, quadVars, tileVars, encVars, perspVars, recalVars, saverVars, memVars, cropVars, workerVars, streamVars, monitorVars>>
notTile == <<sendVars, geomVars, drawingVars, quadVars, qrVars, encVars, perspVars, recalVars, saverVars, memVars, cropVars, workerVars, streamVars, monitorVars>>
notPersp == <<sendVars, geomVars, drawingVars, quadVars, qrVars, tileVars, encVars, recalVars, saverVars, memVars, cropVars, workerVars, streamVars, monitorVars>>

notRecal == <<sendVars, geomVars, drawingVars, quadVars, qrVars, tileVars, encVars, perspVars, saverVars, memVars, cropVars, workerVars, streamVars, monitorVars>>

notSaver == <<sendVars, geomVars, drawingVars, quadVars, qrVars, tileVars, encVars, perspVars, recalVars, memVars, cropVars, workerVars, streamVars, monitorVars>>

notCrop == <<sendVars, geomVars, drawingVars, quadVars, qrVars, tileVars, encVars, perspVars, recalVars, saverVars, memVars, workerVars, streamVars, monitorVars>>

notWorker == <<sendVars, geomVars, drawingVars, quadVars, qrVars, tileVars, encVars, perspVars, recalVars, saverVars, memVars, cropVars, streamVars, monitorVars>>

notStream == <<sendVars, geomVars, drawingVars, quadVars, qrVars, tileVars, encVars, perspVars, recalVars, saverVars, memVars, cropVars, workerVars, monitorVars>>

notMonitor == <<sendVars, geomVars, drawingVars, quadVars, qrVars, tileVars, encVars, perspVars, recalVars, saverVars, memVars, cropVars, workerVars, streamVars>>

notEnc == <<sendVars, geomVars, drawingVars, quadVars, qrVars, tileVars, perspVars, recalVars, saverVars, memVars, cropVars, workerVars, streamVars, monitorVars>>

-----------------------------------------------------------------------------
(* Bounds of the model *)

MaxDevices == 3

\* geometry.py rectangles: the list length, the coordinates, the sizes
MaxRects == 2
GeomMaxCoord == 1
GeomMaxDim == 1

\* drawing.py rectangles
MaxDrawRects == 2
DrawMaxCoord == 1
DrawMaxDim == 2

\* corner lists: the coordinates of a corner
QuadMaxCoord == 2

\* markers: the number of barcodes in front of the camera
MaxBarcodes == 2

\* tiling: the number of panels, their grid coordinates, widths and height
TileMaxPanels == 2
TileMaxCoord == 1
TileMaxDim == 2
TilePanelHeight == 1

-----------------------------------------------------------------------------
(* Small helpers *)

Min(a, b) == IF a <= b THEN a ELSE b
Max(a, b) == IF a >= b THEN a ELSE b

SetMin(S) == CHOOSE x \in S : \A y \in S : x <= y
SetMax(S) == CHOOSE x \in S : \A y \in S : x >= y

Range(s) == {s[i] : i \in DOMAIN s}

\* The outcome of a call: not made yet, returned a value, or raised.
NotCalled == [status |-> "none"]
Returned(v) == [status |-> "returned", value |-> v]
Raised(e) == [status |-> "raised", error |-> e]

-----------------------------------------------------------------------------
(* send_image, clear_devices and the per-panel tasks *)

Hosts == 1..MaxDevices

FailModes == {"none", "query", "push", "clear"}

\* What a Python call without a return statement hands back.
NoneValue == "None"

\* Thread.join returns only for a thread that is no longer alive.
Terminated(h) == tpc[h] \in {"done", "failed"}

SendIdle ==
    /\ devices = {}
    /\ devFail = <<>>
    /\ debugDir = FALSE
    /\ saveFailAt = -1
    /\ op = "none"
    /\ cpc = "idle"
    /\ loopi = 0
    /\ threads = <<>>
    /\ joinj = 0
    /\ tpc = <<>>
    /\ queries = <<>>
    /\ pushes = <<>>
    /\ errLog = {}
    /\ ret = "pending"
    /\ cliOut = "nothing"

\* TapestryController.__init__: a controller over a configuration of n hosts;
\* the environment decides which transport step of which host fails.
SendInit ==
    /\ \E n \in 0..MaxDevices : devices = 1..n
    /\ devFail \in [devices -> FailModes]
    /\ debugDir = FALSE
    /\ saveFailAt = -1
    /\ op = "none"
    /\ cpc = "idle"
    /\ loopi = 0
    /\ threads = <<>>
    /\ joinj = 0
    /\ tpc = [h \in devices |-> "idle"]
    /\ queries = [h \in devices |-> 0]
    /\ pushes = [h \in devices |-> 0]
    /\ errLog = {}
    /\ ret = "pending"
    /\ cliOut = "nothing"

\* The image objects: the scaled image, the tile cropped for a panel, and
\* the images a draw task creates from its tile (its local img).
Access(mode, obj, of) == [mode |-> mode, obj |-> obj, of |-> of]

\* draw up to the rotation: image_refit, resize and convert each read img and
\* bind img to a new image.
RefitAccess(h) ==
    {Access("read", "tile", h), Access("write", "local", h), Access("read", "local", h)}

\* draw from the rotation on: rotate returns a new image, tobytes reads it.
RotateAccess(h) == {Access("write", "local", h), Access("read", "local", h)}

MemIdle == scaledMade = 0 /\ taskAccess = [h \in devices |-> {}] /\ last_image_state = "previous" /\ flash = "nothing"

\* cli.main / the upload handlers call send_image(image, debug_output_dir).
CallSendImage ==
    /\ UNCHANGED notSend
    /\ UNCHANGED memVars
    /\ cpc = "idle"
    /\ op' = "send"
    /\ cpc' = "prep"
    /\ \E dbg \in BOOLEAN :
         /\ debugDir' = dbg
         /\ saveFailAt' \in IF dbg THEN (-1 .. Cardinality(devices)) ELSE {-1}
    /\ UNCHANGED <<devices, devFail, loopi, threads, joinj, tpc, queries,
                   pushes, errLog, ret, cliOut>>

\* send_image steps 1 and 2: the bounding rectangle (min() of an empty set
\* raises), the scaled image, and its debug save.
SendPrepare ==
    /\ UNCHANGED notSend
    /\ scaledMade' = IF devices = {} THEN scaledMade ELSE scaledMade + 1
    /\ UNCHANGED <<taskAccess, last_image_state, flash>>
    /\ op = "send"
    /\ cpc = "prep"
    /\ IF devices = {} \/ saveFailAt = 0
         THEN /\ cpc' = "raised"
              /\ ret' = IF devices = {} THEN "ValueError" ELSE "OSError"
              /\ UNCHANGED loopi
         ELSE /\ cpc' = "loop"
              /\ loopi' = 1
              /\ UNCHANGED ret
    /\ UNCHANGED <<devices, devFail, debugDir, saveFailAt, op, threads, joinj,
                   tpc, queries, pushes, errLog, cliOut>>

\* One iteration of the loop of send_image step 3: crop the tile, save it when
\* debugging, start the thread running draw(host, tile, True, rotation).
SendStartThread ==
    /\ UNCHANGED notSend
    /\ UNCHANGED memVars
    /\ op = "send"
    /\ cpc = "loop"
    /\ loopi \in devices
    /\ IF saveFailAt = loopi
         THEN /\ cpc' = "raised"
              /\ ret' = "OSError"
              /\ UNCHANGED <<loopi, threads, tpc, joinj>>
         ELSE /\ tpc' = [tpc EXCEPT ![loopi] = "query"]
              /\ threads' = Append(threads, loopi)
              /\ loopi' = loopi + 1
              /\ IF loopi + 1 \in devices
                   THEN UNCHANGED <<cpc, joinj>>
                   ELSE cpc' = "join" /\ joinj' = 1
              /\ UNCHANGED ret
    /\ UNCHANGED <<devices, devFail, debugDir, saveFailAt, op, queries, pushes,
                   errLog, cliOut>>

\* clear_devices: the loop that starts one thread running clear(host) per
\* device; with no device the loop body never runs.
CallClearDevices ==
    /\ UNCHANGED notSend
    /\ UNCHANGED memVars
    /\ cpc = "idle"
    /\ op' = "clear"
    /\ IF devices = {}
         THEN cpc' = "join" /\ joinj' = 1 /\ UNCHANGED loopi
         ELSE cpc' = "loop" /\ loopi' = 1 /\ UNCHANGED joinj
    /\ UNCHANGED <<devices, devFail, debugDir, saveFailAt, threads, tpc,
                   queries, pushes, errLog, ret, cliOut>>

ClearStartThread ==
    /\ UNCHANGED notSend
    /\ UNCHANGED memVars
    /\ op = "clear"
    /\ cpc = "loop"
    /\ loopi \in devices
    /\ tpc' = [tpc EXCEPT ![loopi] = "clearing"]
    /\ threads' = Append(threads, loopi)
    /\ loopi' = loopi + 1
    /\ IF loopi + 1 \in devices
         THEN UNCHANGED <<cpc, joinj>>
         ELSE cpc' = "join" /\ joinj' = 1
    /\ UNCHANGED <<devices, devFail, debugDir, saveFailAt, op, queries, pushes,
                   errLog, ret, cliOut>>

\* `for t in threads: t.join()`: one join, which blocks while the thread is
\* alive; after the last one the call returns, with no return value.
JoinThread ==
    /\ UNCHANGED notSend
    /\ UNCHANGED memVars
    /\ cpc = "join"
    /\ IF joinj \in DOMAIN threads
         THEN /\ Terminated(threads[joinj])
              /\ joinj' = joinj + 1
              /\ UNCHANGED <<cpc, ret>>
         ELSE /\ cpc' = "returned"
              /\ ret' = NoneValue
              /\ UNCHANGED joinj
    /\ UNCHANGED <<devices, devFail, debugDir, saveFailAt, op, loopi, threads,
                   tpc, queries, pushes, errLog, cliOut>>

\* As DrawQuery, but the push is issued although the query failed.
DrawQueryThenPushAnyway(h) ==
    /\ UNCHANGED notSend
    /\ UNCHANGED scaledMade
    /\ UNCHANGED <<last_image_state, flash>>
    /\ taskAccess' = [taskAccess EXCEPT ![h] = @ \cup RefitAccess(h)]
    /\ tpc[h] = "query"
    /\ queries' = [queries EXCEPT ![h] = @ + 1]
    /\ tpc' = [tpc EXCEPT ![h] = "push"]
    /\ errLog' = IF devFail[h] = "query" THEN errLog \cup {h} ELSE errLog
    /\ UNCHANGED <<devices, devFail, debugDir, saveFailAt, op, cpc, loopi,
                   threads, joinj, pushes, ret, cliOut>>

\* draw, first half: info(hostname), one GET /.  A failure is printed by the
\* except clause and re-raised, which ends the thread.
DrawQuery(h) ==
    /\ UNCHANGED notSend
    /\ UNCHANGED scaledMade
    /\ UNCHANGED <<last_image_state, flash>>
    /\ taskAccess' = [taskAccess EXCEPT ![h] =
                         IF devFail[h] = "query" THEN @ ELSE @ \cup RefitAccess(h)]
    /\ tpc[h] = "query"
    /\ queries' = [queries EXCEPT ![h] = @ + 1]
    /\ IF devFail[h] = "query"
         THEN /\ tpc' = [tpc EXCEPT ![h] = "failed"]
              /\ errLog' = errLog \cup {h}
         ELSE /\ tpc' = [tpc EXCEPT ![h] = "push"]
              /\ UNCHANGED errLog
    /\ UNCHANGED <<devices, devFail, debugDir, saveFailAt, op, cpc, loopi,
                   threads, joinj, pushes, ret, cliOut>>

\* As DrawPush, but the rotation is applied in place to the scaled image.
DrawPushRotatingScaled(h) ==
    /\ UNCHANGED notSend
    /\ UNCHANGED scaledMade
    /\ UNCHANGED <<last_image_state, flash>>
    /\ taskAccess' = [taskAccess EXCEPT ![h] =
                         @ \cup {Access("write", "scaled", 0), Access("read", "local", h)}]
    /\ tpc[h] = "push"
    /\ pushes' = [pushes EXCEPT ![h] = @ + 1]
    /\ IF devFail[h] = "push"
         THEN /\ tpc' = [tpc EXCEPT ![h] = "failed"]
              /\ errLog' = errLog \cup {h}
         ELSE /\ tpc' = [tpc EXCEPT ![h] = "done"]
              /\ UNCHANGED errLog
    /\ UNCHANGED <<devices, devFail, debugDir, saveFailAt, op, cpc, loopi,
                   threads, joinj, queries, ret, cliOut>>

\* draw, second half: refit, resize, convert, rotate, then one POST /draw.
DrawPush(h) ==
    /\ UNCHANGED notSend
    /\ UNCHANGED scaledMade
    /\ UNCHANGED <<last_image_state, flash>>
    /\ taskAccess' = [taskAccess EXCEPT ![h] = @ \cup RotateAccess(h)]
    /\ tpc[h] = "push"
    /\ pushes' = [pushes EXCEPT ![h] = @ + 1]
    /\ IF devFail[h] = "push"
         THEN /\ tpc' = [tpc EXCEPT ![h] = "failed"]
              /\ errLog' = errLog \cup {h}
         ELSE /\ tpc' = [tpc EXCEPT ![h] = "done"]
              /\ UNCHANGED errLog
    /\ UNCHANGED <<devices, devFail, debugDir, saveFailAt, op, cpc, loopi,
                   threads, joinj, queries, ret, cliOut>>

\* clear(hostname): one POST /clear, raise_for_status.
ClearPost(h) ==
    /\ UNCHANGED notSend
    /\ UNCHANGED memVars
    /\ tpc[h] = "clearing"
    /\ pushes' = [pushes EXCEPT ![h] = @ + 1]
    /\ tpc' = [tpc EXCEPT ![h] = IF devFail[h] = "clear" THEN "failed" ELSE "done"]
    /\ UNCHANGED <<devices, devFail, debugDir, saveFailAt, op, cpc, loopi,
                   threads, joinj, queries, errLog, ret, cliOut>>

\* cli.main after send_image returned: the success line, with the number of
\* configured devices.  An exception of send_image ends main before the print.
CliPrint ==
    /\ UNCHANGED notSend
    /\ UNCHANGED memVars
    /\ op = "send"
    /\ cpc \in {"returned", "raised"}
    /\ cliOut = "nothing"
    /\ flash = "nothing"
    /\ cliOut' = IF cpc = "returned" THEN "Successfully sent" ELSE "Traceback"
    /\ UNCHANGED <<devices, devFail, debugDir, saveFailAt, op, cpc, loopi,
                   threads, joinj, tpc, queries, pushes, errLog, ret>>

\* upload_image (and api_upload_image) after send_image: save_last_image(image)
\* and the success message when it returned, the error message when it raised.
UploadSave ==
    /\ UNCHANGED notSend
    /\ op = "send"
    /\ cpc \in {"returned", "raised"}
    /\ cliOut = "nothing"
    /\ flash = "nothing"
    /\ last_image_state' = IF cpc = "returned" THEN "uploaded" ELSE last_image_state
    /\ flash' = IF cpc = "returned" THEN "Successfully sent" ELSE "Error processing image"
    /\ UNCHANGED <<scaledMade, taskAccess>>
    /\ UNCHANGED sendVars

SendNext ==
    \/ CallSendImage
    \/ SendPrepare
    \/ SendStartThread
    \/ CallClearDevices
    \/ ClearStartThread
    \/ JoinThread
    \/ \E h \in Hosts : h \in devices /\ DrawQuery(h)
    \/ \E h \in Hosts : h \in devices /\ DrawPush(h)
    \/ \E h \in Hosts : h \in devices /\ ClearPost(h)
    \/ CliPrint
    \/ UploadSave


-----------------------------------------------------------------------------
(* geometry.py: Point, Dimensions, Rectangle *)

Point(x, y) == [x |-> x, y |-> y]

Dimensions(w, h) == [width |-> w, height |-> h]

\* Point.__add__(Dimensions)
PointAdd(p, d) == Point(p.x + d.width, p.y + d.height)

Rectangle(start, dimensions) == [start |-> start, dimensions |-> dimensions]

\* geometry.Rectangle.get_corners: the start and the opposite corner.
get_corners(r) == <<r.start, PointAdd(r.start, r.dimensions)>>

\* all_points: the corners of every rectangle, flattened.
AllPoints(rs) == UNION {Range(get_corners(rs[i])) : i \in DOMAIN rs}

\* geometry.Rectangle.bounding_rectangle; min() of an empty set raises ValueError.
bounding_rectangle(rs) ==
    LET all_x == {p.x : p \in AllPoints(rs)}
        all_y == {p.y : p \in AllPoints(rs)}
    IN  IF all_x = {}
          THEN Raised("ValueError")
          ELSE Returned(Rectangle(Point(SetMin(all_x), SetMin(all_y)),
                                  Dimensions(SetMax(all_x) - SetMin(all_x),
                                             SetMax(all_y) - SetMin(all_y))))

GeomRects ==
    {Rectangle(Point(x, y), Dimensions(w, h)) :
        x \in 0..GeomMaxCoord, y \in 0..GeomMaxCoord,
        w \in 0..GeomMaxDim, h \in 0..GeomMaxDim}

GeomIdle == rects = <<>> /\ bres = NotCalled

GeomInit == GeomIdle

\* The caller builds the list of rectangles (send_image, step 1).
GeomAddRectangle ==
    /\ UNCHANGED notGeom
    /\ bres = NotCalled
    /\ Len(rects) < MaxRects
    /\ \E r \in GeomRects : rects' = Append(rects, r)
    /\ UNCHANGED bres

GeomBoundingRectangle ==
    /\ UNCHANGED notGeom
    /\ bres = NotCalled
    /\ bres' = bounding_rectangle(rects)
    /\ UNCHANGED rects

GeomNext == GeomAddRectangle \/ GeomBoundingRectangle

-----------------------------------------------------------------------------
(* drawing.py: Rectangle with rotation_deg *)

DRectangle(start, dimensions, rotation_deg) ==
    [start |-> start, dimensions |-> dimensions, rotation_deg |-> rotation_deg]

\* The rotations the model draws: the multiples of 90 degrees, where cos and
\* sin are 0 or +-1 up to 2e-16 and int() truncates the product to 0 or +-len.
Rotations == {0, 90, 180, 270}

CosQ(deg) ==
    LET d == deg % 360
    IN  IF d = 0 THEN 1 ELSE IF d = 180 THEN -1 ELSE 0

SinQ(deg) ==
    LET d == deg % 360
    IN  IF d = 90 THEN 1 ELSE IF d = 270 THEN -1 ELSE 0

\* int(length * math.cos(math.radians(deg))) and the same with sin
IntCos(len, deg) == len * CosQ(deg)
IntSin(len, deg) == len * SinQ(deg)

\* drawing.Rectangle.get_corners: delta_width and delta_height take their x
\* from dimensions.width and their y from dimensions.height.
delta_width(r) ==
    Dimensions(IntCos(r.dimensions.width, r.rotation_deg),
               0 - IntSin(r.dimensions.height, r.rotation_deg))

delta_height(r) ==
    Dimensions(IntCos(r.dimensions.width, r.rotation_deg - 90),
               0 - IntSin(r.dimensions.height, r.rotation_deg - 90))

drawing_get_corners(r) ==
    << r.start,
       PointAdd(r.start, delta_width(r)),
       PointAdd(r.start, delta_height(r)),
       PointAdd(PointAdd(r.start, delta_width(r)), delta_height(r)) >>

DrawingAllPoints(rs) ==
    UNION {Range(drawing_get_corners(rs[i])) : i \in DOMAIN rs}

\* drawing.Rectangle.bounding_rectangle
drawing_bounding_rectangle(rs) ==
    LET all_x == {p.x : p \in DrawingAllPoints(rs)}
        all_y == {p.y : p \in DrawingAllPoints(rs)}
    IN  IF all_x = {}
          THEN Raised("ValueError")
          ELSE Returned(DRectangle(Point(SetMin(all_x), SetMin(all_y)),
                                   Dimensions(SetMax(all_x) - SetMin(all_x),
                                              SetMax(all_y) - SetMin(all_y)),
                                   0))

DrawingRects ==
    {DRectangle(Point(x, y), Dimensions(w, h), rot) :
        x \in 0..DrawMaxCoord, y \in 0..DrawMaxCoord,
        w \in 0..DrawMaxDim, h \in 0..DrawMaxDim, rot \in Rotations}

DrawingIdle == drects = <<>> /\ dbres = NotCalled

DrawingInit == DrawingIdle

DrawingAddRectangle ==
    /\ UNCHANGED notDrawing
    /\ dbres = NotCalled
    /\ Len(drects) < MaxDrawRects
    /\ \E r \in DrawingRects : drects' = Append(drects, r)
    /\ UNCHANGED dbres

DrawingBoundingRectangle ==
    /\ UNCHANGED notDrawing
    /\ dbres = NotCalled
    /\ dbres' = drawing_bounding_rectangle(drects)
    /\ UNCHANGED drects

DrawingNext == DrawingAddRectangle \/ DrawingBoundingRectangle

(* Angles: math.atan2, math.degrees, math.acos in fixed point *)

\* Angles are held in millidegrees.
MilliDeg == 1000

Deg(d) == d * MilliDeg

\* The largest coordinate difference the table below covers.
AtanRange == 4

\* round(1000 * math.degrees(math.atan2(dy, dx))) for dy, dx in -4..4; row
\* dy + 5, column dx + 5.  atan2(0, 0) is 0; multiples of 45 degrees are exact.
AtanTable ==
    << <<-135000, -126870, -116565, -104036, -90000, -75964, -63435, -53130, -45000>>,
       <<-143130, -135000, -123690, -108435, -90000, -71565, -56310, -45000, -36870>>,
       <<-153435, -146310, -135000, -116565, -90000, -63435, -45000, -33690, -26565>>,
       <<-165964, -161565, -153435, -135000, -90000, -45000, -26565, -18435, -14036>>,
       <<180000, 180000, 180000, 180000, 0, 0, 0, 0, 0>>,
       <<165964, 161565, 153435, 135000, 90000, 45000, 26565, 18435, 14036>>,
       <<153435, 146310, 135000, 116565, 90000, 63435, 45000, 33690, 26565>>,
       <<143130, 135000, 123690, 108435, 90000, 71565, 56310, 45000, 36870>>,
       <<135000, 126870, 116565, 104036, 90000, 75964, 63435, 53130, 45000>> >>

Atan2MilliDeg(dy, dx) == AtanTable[dy + AtanRange + 1][dx + AtanRange + 1]

Abs(a) == IF a < 0 THEN 0 - a ELSE a

\* floor(sqrt(n)) for a root of at most cap, by bisection
RECURSIVE ISqrtBetween(_, _, _)
ISqrtBetween(n, lo, hi) ==
    IF lo >= hi
      THEN lo
      ELSE LET mid == (lo + hi + 1) \div 2
           IN  IF mid * mid <= n
                 THEN ISqrtBetween(n, mid, hi)
                 ELSE ISqrtBetween(n, lo, mid - 1)

ISqrtUpTo(n, cap) == ISqrtBetween(n, 0, Min(n, cap))

-----------------------------------------------------------------------------
(* position_detection.calculate_qr_rotation_from_corners *)

\* The mutant of calculate_qr_rotation_from_corners that forgets the
\* normalisation of negative angles.
RotationNotNormalised(cs) ==
    IF Len(cs) < 4
      THEN 0
      ELSE Atan2MilliDeg(cs[2].y - cs[1].y, cs[2].x - cs[1].x)

\* The mutant of calculate_qr_rotation_from_corners that adds 360 to every
\* negative angle.
RotationBelowZeroWrapped(cs) ==
    IF Len(cs) < 4
      THEN 0
      ELSE LET rotation == Atan2MilliDeg(cs[2].y - cs[1].y, cs[2].x - cs[1].x)
           IN  IF rotation < 0 THEN rotation + Deg(360) ELSE rotation

\* len(corners) < 4 gives 0.0; otherwise the angle of the edge from corners[0]
\* to corners[1], with 360 added when it is below -45 degrees.
calculate_qr_rotation_from_corners(cs) ==
    IF Len(cs) < 4
      THEN 0
      ELSE LET top_left == cs[1]
               top_right == cs[2]
               dx == top_right.x - top_left.x
               dy == top_right.y - top_left.y
               rotation == Atan2MilliDeg(dy, dx)
           IN  IF rotation < Deg(-45) THEN rotation + Deg(360) ELSE rotation

-----------------------------------------------------------------------------
(* perspective_correction.calculate_rectangularity_score *)

\* Scores and ratios are held in thousandths, truncated.
ScoreOne == 1000

MulScore(a, b) == (a * b) \div ScoreOne

\* pts[(i + k) % 4] with Python's 0-based i, on a 1-based list of 4
Pt(cs, i) == cs[(i % 4) + 1]

SqLen(p, q) == (q.x - p.x) * (q.x - p.x) + (q.y - p.y) * (q.y - p.y)

\* min(pair) / max(pair) if max(pair) > 0 else 0, for two side lengths given
\* by their squares: sqrt(min / max)
SideRatio(sqa, sqb) ==
    LET lo == Min(sqa, sqb)
        hi == Max(sqa, sqb)
    IN  IF hi > 0 THEN ISqrtUpTo((lo * ScoreOne * ScoreOne) \div hi, ScoreOne) ELSE 0

side_score(cs) ==
    MulScore(SideRatio(SqLen(Pt(cs, 0), Pt(cs, 1)), SqLen(Pt(cs, 2), Pt(cs, 3))),
             SideRatio(SqLen(Pt(cs, 1), Pt(cs, 2)), SqLen(Pt(cs, 3), Pt(cs, 0))))

\* The angle at pts[i] between the vectors to pts[i-1] and to pts[i+1], by
\* acos of the clipped cosine: in [0, 180] degrees.  A zero vector makes the
\* cosine 0/0 = nan, and every later value nan.
AngleIsNan(cs, i) ==
    \/ Pt(cs, i + 3) = Pt(cs, i)
    \/ Pt(cs, i + 1) = Pt(cs, i)

AngleAt(cs, i) ==
    LET p1 == Pt(cs, i + 3)
        p2 == Pt(cs, i)
        p3 == Pt(cs, i + 1)
        d == Abs(Atan2MilliDeg(p1.y - p2.y, p1.x - p2.x)
                 - Atan2MilliDeg(p3.y - p2.y, p3.x - p2.x))
    IN  IF d > Deg(180) THEN Deg(360) - d ELSE d

\* angle_factor = max(0, 1.0 - abs(angle - pi/2) / (pi/2)); max(0, nan) is 0.
AngleFactor(cs, i) ==
    IF AngleIsNan(cs, i)
      THEN 0
      ELSE LET angle_error ==
                   (Abs(AngleAt(cs, i) - Deg(90)) * ScoreOne + Deg(90) - 1) \div Deg(90)
           IN  Max(0, ScoreOne - angle_error)

angle_score(cs) ==
    MulScore(MulScore(AngleFactor(cs, 0), AngleFactor(cs, 1)),
             MulScore(AngleFactor(cs, 2), AngleFactor(cs, 3)))

\* The mutant of calculate_rectangularity_score that returns the side score
\* alone.
ScoreWithoutAngles(cs) ==
    IF Len(cs) # 4 THEN 0 ELSE side_score(cs)

calculate_rectangularity_score(cs) ==
    IF Len(cs) # 4
      THEN 0
      ELSE MulScore(side_score(cs), angle_score(cs))

-----------------------------------------------------------------------------
(* Corner lists and the two functions applied to them *)

GridPoints == {Point(x, y) : x \in 0..QuadMaxCoord, y \in 0..QuadMaxCoord}

CornerLists == [1..3 -> GridPoints] \cup [1..4 -> GridPoints]

QuadIdle == corners = <<>> /\ rotres = NotCalled /\ scoreres = NotCalled

QuadInit ==
    /\ corners \in CornerLists
    /\ rotres = NotCalled
    /\ scoreres = NotCalled

QuadRotation ==
    /\ UNCHANGED notQuad
    /\ rotres' = Returned(calculate_qr_rotation_from_corners(corners))
    /\ UNCHANGED <<corners, scoreres>>

QuadScore ==
    /\ UNCHANGED notQuad
    /\ scoreres' = Returned(calculate_rectangularity_score(corners))
    /\ UNCHANGED <<corners, rotres>>

\* The detector reports the same polygon starting one corner later.
QuadShiftCorners ==
    /\ UNCHANGED notQuad
    /\ corners # <<>>
    /\ corners' = Append(Tail(corners), Head(corners))
    /\ rotres' = NotCalled
    /\ scoreres' = NotCalled

QuadNext == QuadRotation \/ QuadScore \/ QuadShiftCorners

-----------------------------------------------------------------------------
(* Marker payloads: json.dumps, json.loads and the "DIGINK:" prefix *)

\* JSON values: strings and numbers.
JStr(s) == [type |-> "str", s |-> s, n |-> 0]
JNum(n) == [type |-> "num", s |-> "", n |-> n]

\* A text is a sequence of tokens: literal pieces and "key": value members.
Lit(s) == [tok |-> "lit", key |-> s, val |-> JStr("")]
Member(k, v) == [tok |-> "member", key |-> k, val |-> v]

PREFIX == "DIGINK:"

\* json.dumps of a dict given as its (key, value) items in insertion order
json_dumps(items) ==
    <<Lit("{")>> \o [i \in 1..Len(items) |-> Member(items[i][1], items[i][2])]
                 \o <<Lit("}")>>

\* json.loads: the text is an object when it is "{", members, "}"; the dict
\* maps each key to the value of its last member.  Otherwise JSONDecodeError.
IsJsonObject(text) ==
    /\ Len(text) >= 2
    /\ text[1] = Lit("{")
    /\ text[Len(text)] = Lit("}")
    /\ \A i \in 2..(Len(text) - 1) : text[i].tok = "member"

json_loads(text) ==
    IF IsJsonObject(text)
      THEN LET members == 2..(Len(text) - 1)
               keys == {text[i].key : i \in members}
               last(k) == SetMax({i \in members : text[i].key = k})
           IN  Returned([k \in keys |-> text[last(k)].val])
      ELSE Raised("JSONDecodeError")

\* data.startswith('DIGINK:') and data[7:]
startswith(data, prefix) == Len(data) > 0 /\ data[1] = Lit(prefix)
RemovePrefix(data) == Tail(data)

\* The number of decimal digits of n >= 0
RECURSIVE Digits(_)
Digits(n) == IF n < 10 THEN 1 ELSE 1 + Digits(n \div 10)

ValueLength(v) == IF v.type = "str" THEN Len(v.s) + 2 ELSE Digits(v.n)

\* The number of characters of a text; members are written '"key": value' and
\* separated by ', '.
RECURSIVE TextLength(_)
TextLength(text) ==
    IF text = <<>>
      THEN 0
      ELSE LET t == Head(text)
               rest == Tail(text)
               sep == IF t.tok = "member" /\ rest # <<>> /\ Head(rest).tok = "member"
                        THEN 2 ELSE 0
           IN  (IF t.tok = "lit"
                  THEN Len(t.key)
                  ELSE Len(t.key) + 2 + 2 + ValueLength(t.val))
               + sep + TextLength(rest)

-----------------------------------------------------------------------------
(* qr_generation.generate_positioning_qr_image *)

SCREEN_TYPES == {"ED060XC3", "ED097TC2"}

\* Data bits of QR versions 1..10 at error correction L.
BIT_LIMIT_TABLE == <<152, 272, 440, 640, 864, 1088, 1248, 1552, 1856, 2192>>

\* qr.make(fit=True): the smallest version whose capacity holds the mode
\* indicator (4 bits), the length (8 bits) and the bytes of the data.
best_fit(length) ==
    LET needed == 4 + 8 + 8 * length
        fits == {v \in 1..Len(BIT_LIMIT_TABLE) : BIT_LIMIT_TABLE[v] >= needed}
    IN  IF fits = {} THEN Len(BIT_LIMIT_TABLE) ELSE SetMin(fits)

\* qr.modules_count
modules_count(version) == 17 + 4 * version

min_module_size == 3

\* The mutant of target_size that rounds to the nearest integer.
TargetSizeRounded(width, height) == (Min(width, height) * 3 + 2) \div 4

\* int(min(width, height) * 0.75)
target_size(width, height) == (Min(width, height) * 3) \div 4

qr_json_data(ip, screen_type_name, width, height) ==
    << <<"host", JStr(ip)>>,
       <<"screen_type", JStr(screen_type_name)>>,
       <<"screen_width_px", JNum(width)>>,
       <<"screen_height_px", JNum(height)>>,
       <<"qr_size_px", JNum(target_size(width, height))>> >>

\* f"DIGINK:{json.dumps(qr_json_data)}"
qr_data(ip, screen_type_name, width, height) ==
    <<Lit(PREFIX)>> \o json_dumps(qr_json_data(ip, screen_type_name, width, height))

\* The mutant of generate_positioning_qr_image without the minimum module
\* size.
GenerateAnySize(ip, screen_type_name, width, height) ==
    IF screen_type_name \notin SCREEN_TYPES
      THEN Raised("ValueError")
      ELSE LET size == target_size(width, height)
           IN  Returned([width |-> width, height |-> height,
                         data |-> qr_data(ip, screen_type_name, width, height),
                         qr_size |-> size,
                         qr_x |-> (width - size) \div 2,
                         qr_y |-> (height - size) \div 2])

\* The image is the white width x height page with the marker of edge
\* target_size pasted at (qr_x, qr_y).
generate_positioning_qr_image(ip, screen_type_name, width, height) ==
    IF screen_type_name \notin SCREEN_TYPES
      THEN Raised("ValueError")
      ELSE LET data == qr_data(ip, screen_type_name, width, height)
               size == target_size(width, height)
               min_qr_size == modules_count(best_fit(TextLength(data))) * min_module_size
           IN  IF size < min_qr_size
                 THEN Raised("Exception: QR code too small")
                 ELSE Returned([width |-> width, height |-> height, data |-> data,
                                qr_size |-> size,
                                qr_x |-> (width - size) \div 2,
                                qr_y |-> (height - size) \div 2])

-----------------------------------------------------------------------------
(* position_detection.detect_qr_positions *)

\* Image and layout coordinates derived by division are held in hundredths.
Fix == 100

\* The mutant of standard_orientation that keeps the raw angle, in whole
\* degrees.
RawOrientation(rotation) == (rotation % Deg(360)) \div MilliDeg

\* rotation % 360 mapped to the standard orientations; the argument is in
\* millidegrees, the result in degrees.
standard_orientation(rotation) ==
    LET normalized == rotation % Deg(360)
    IN  IF normalized < Deg(45) \/ normalized >= Deg(315) THEN 0
        ELSE IF Deg(45) <= normalized /\ normalized < Deg(135) THEN 90
        ELSE IF Deg(135) <= normalized /\ normalized < Deg(225) THEN 180
        ELSE 270

Sum4(f) == f[1] + f[2] + f[3] + f[4]

Xs(points) == {points[i].x : i \in DOMAIN points}
Ys(points) == {points[i].y : i \in DOMAIN points}

QRPositionData(hostname, screen_type, center, rotation, qr_corners, bounding_box, screen_width_px, screen_height_px, qr_size_px, screen_corners) ==
    [hostname |-> hostname, screen_type |-> screen_type, center |-> center,
     rotation |-> rotation, corners |-> qr_corners, bounding_box |-> bounding_box,
     screen_width_px |-> screen_width_px, screen_height_px |-> screen_height_px,
     qr_size_px |-> qr_size_px, screen_corners |-> screen_corners]

RequiredKeys == {"ip", "screen_type", "screen_width_px", "screen_height_px", "qr_size_px"}

\* The body of the loop for one barcode: the list holding the QRPositionData
\* appended for it, or the empty list when the barcode is skipped (continue,
\* or an exception caught by `except Exception`).
ProcessBarcode(barcode) ==
    LET data == barcode.data
        qr_corners == barcode.points
        parsed == json_loads(RemovePrefix(data))
    IN  IF ~startswith(data, PREFIX) THEN <<>>
        ELSE IF parsed.status # "returned" THEN <<>>
        ELSE LET qr_json == parsed.value IN
        IF ~(RequiredKeys \subseteq DOMAIN qr_json) THEN <<>>     \* KeyError
        ELSE IF Len(qr_corners) < 4 THEN <<>>
        ELSE IF \E k \in {"screen_width_px", "screen_height_px", "qr_size_px"} :
                    qr_json[k].type # "num" THEN <<>>                \* TypeError
        ELSE IF qr_json["qr_size_px"].n = 0 THEN <<>>               \* ZeroDivisionError
        ELSE
        LET ip == qr_json["ip"].s
            screen_type == qr_json["screen_type"].s
            screen_width_px == qr_json["screen_width_px"].n
            screen_height_px == qr_json["screen_height_px"].n
            qr_size_px == qr_json["qr_size_px"].n
            center_x == (Sum4([i \in 1..4 |-> qr_corners[i].x]) * Fix) \div 4
            center_y == (Sum4([i \in 1..4 |-> qr_corners[i].y]) * Fix) \div 4
            rotation == standard_orientation(calculate_qr_rotation_from_corners(qr_corners))
            min_x == SetMin(Xs(qr_corners))
            max_x == SetMax(Xs(qr_corners))
            min_y == SetMin(Ys(qr_corners))
            max_y == SetMax(Ys(qr_corners))
            qr_size_img == (((max_x - min_x) + (max_y - min_y)) * Fix) \div 2
            \* screen_width_px * (qr_size_img / qr_size_px)
            screen_width_img == (screen_width_px * qr_size_img) \div qr_size_px
            screen_height_img == (screen_height_px * qr_size_img) \div qr_size_px
            half_w == screen_width_img \div 2
            half_h == screen_height_img \div 2
            screen_corners == << Point(center_x - half_w, center_y - half_h),
                                 Point(center_x + half_w, center_y - half_h),
                                 Point(center_x + half_w, center_y + half_h),
                                 Point(center_x - half_w, center_y + half_h) >>
        IN  << QRPositionData(ip, screen_type, Point(center_x, center_y), rotation,
                              qr_corners, <<min_x, min_y, max_x, max_y>>,
                              screen_width_px, screen_height_px, qr_size_px,
                              screen_corners) >>

RECURSIVE ProcessBarcodes(_)
ProcessBarcodes(barcodes) ==
    IF barcodes = <<>>
      THEN <<>>
      ELSE ProcessBarcode(Head(barcodes)) \o ProcessBarcodes(Tail(barcodes))

\* As ProcessBarcodes, but the loop ends at the first barcode it skips.
RECURSIVE DetectUntilFirstSkipped(_)
DetectUntilFirstSkipped(barcodes) ==
    IF barcodes = <<>> \/ ProcessBarcode(Head(barcodes)) = <<>>
      THEN <<>>
      ELSE ProcessBarcode(Head(barcodes)) \o DetectUntilFirstSkipped(Tail(barcodes))

\* No barcode read gives []; otherwise the barcodes are processed in order.
detect_qr_positions(barcodes) ==
    IF barcodes = <<>> THEN <<>> ELSE ProcessBarcodes(barcodes)

-----------------------------------------------------------------------------
(* position_detection.calculate_physical_positions *)

typical_screen_size_mm == 150

\* A margin of half the size around the layout.
HalfMargin == 20 \div 2

margin == 20

\* One entry of screen_data: the box of the marker's screen corners.
ScreenBox(data) ==
    LET min_x == SetMin(Xs(data.screen_corners))
        max_x == SetMax(Xs(data.screen_corners))
        min_y == SetMin(Ys(data.screen_corners))
        max_y == SetMax(Ys(data.screen_corners))
    IN  [hostname |-> data.hostname, screen_type |-> data.screen_type,
         rotation |-> data.rotation, qr_center |-> data.center,
         screen_top_left |-> Point(min_x, min_y),
         screen_width_px |-> max_x - min_x,
         screen_height_px |-> max_y - min_y]

RECURSIVE SumWidths(_)
SumWidths(screen_data) ==
    IF screen_data = <<>>
      THEN 0
      ELSE Head(screen_data).screen_width_px + SumWidths(Tail(screen_data))

\* v * scale_factor in hundredths, where scale_factor = 150 / (total / count)
\* and v and total are in hundredths
Scaled(v, total, count) == (v * typical_screen_size_mm * count * Fix) \div total

calculate_physical_positions_from_qr(position_data) ==
    IF position_data = <<>>
      THEN Returned(<<>>)
      ELSE
        LET screen_data == [i \in 1..Len(position_data) |-> ScreenBox(position_data[i])]
            count == Len(screen_data)
            total == SumWidths(screen_data)
        IN  IF total = 0
              THEN Raised("ZeroDivisionError")
              ELSE
                LET min_x == SetMin({screen_data[i].screen_top_left.x : i \in 1..count})
                    min_y == SetMin({screen_data[i].screen_top_left.y : i \in 1..count})
                    hostnames == {screen_data[i].hostname : i \in 1..count}
                    last(h) == SetMax({i \in 1..count : screen_data[i].hostname = h})
                    entry(screen) ==
                        [x |-> Scaled(screen.screen_top_left.x - min_x, total, count)
                                 + margin * Fix,
                         y |-> Scaled(screen.screen_top_left.y - min_y, total, count)
                                 + margin * Fix,
                         rotation |-> screen.rotation,
                         screen_type |-> screen.screen_type,
                         scale_factor |-> Scaled(Fix, total, count),
                         detected_width |-> Scaled(screen.screen_width_px, total, count),
                         detected_height |-> Scaled(screen.screen_height_px, total, count)]
                IN  Returned([h \in hostnames |-> entry(screen_data[last(h)])])

\* As calculate_physical_positions, but an empty list is an error.
PositionsRaiseOnEmpty(position_data) ==
    IF position_data = <<>>
      THEN Raised("ValueError")
      ELSE calculate_physical_positions_from_qr(position_data)

calculate_physical_positions(position_data) ==
    calculate_physical_positions_from_qr(position_data)

-----------------------------------------------------------------------------
(* The scene in front of the camera and the calibration pipeline *)

\* Device ids, by position in the scene.
HostNames == <<"10.42.0.154", "10.42.0.174", "10.42.0.175", "10.42.0.176">>

Screen(screen_type, width, height) ==
    [screen_type |-> screen_type, width |-> width, height |-> height]

\* What a panel reports about itself: two real panels, a panel too small for
\* a legible marker, and a panel of a type missing from SCREEN_TYPES.
PanelScreens ==
    { Screen("ED060XC3", 1024, 768), Screen("ED097TC2", 1200, 825),
      Screen("ED097TC2", 160, 120), Screen("ED999", 1024, 768) }

\* The direction and length of a marker's top edge in the photograph, in
\* pixels: the four upright orientations, and tilted ones.
UprightEdges == {Point(2, 0), Point(0, 2), Point(-2, 0), Point(0, -2)}

TiltedEdges == {Point(2, 2), Point(-2, 2), Point(-2, -2), Point(2, -2), Point(4, 1)}

\* A barcode of the scene.  kind "panel": a panel showing the image the
\* encoder generated for it.  kind "printed": a marker whose payload names the
\* device under the key "ip".  kind "foreign": a barcode without the prefix.
\* kind "truncated": the prefix followed by text that is not JSON.
\* kind "incomplete": a JSON payload without the field qr_size_px.
SceneItem(kind, screen, edge) == [kind |-> kind, screen |-> screen, edge |-> edge]

SceneItems ==
    {SceneItem("panel", s, e) : s \in PanelScreens, e \in UprightEdges}
    \cup {SceneItem("printed", s, e) :
              s \in {Screen("ED060XC3", 1024, 768), Screen("ED097TC2", 1200, 825)},
              e \in UprightEdges \cup TiltedEdges}
    \cup {SceneItem(k, Screen("", 0, 0), e) :
              k \in {"foreign", "truncated"}, e \in UprightEdges}
    \cup {SceneItem("printed", Screen("ED999", 1024, 768), Point(2, 0)),
          SceneItem("incomplete", Screen("ED060XC3", 1024, 768), Point(2, 0))}

Scenes == UNION {[1..n -> SceneItems] : n \in 0..MaxBarcodes}

HostOf(i) == HostNames[Min(i, Len(HostNames))]

\* The payload of a printed marker: as the encoder's, with the key "ip".
printed_data(ip, screen) ==
    <<Lit(PREFIX)>> \o json_dumps(
        << <<"ip", JStr(ip)>>,
           <<"screen_type", JStr(screen.screen_type)>>,
           <<"screen_width_px", JNum(screen.width)>>,
           <<"screen_height_px", JNum(screen.height)>>,
           <<"qr_size_px", JNum(target_size(screen.width, screen.height))>> >>)

foreign_data == <<Lit("https://example.com/")>>

truncated_data == <<Lit(PREFIX), Lit("{"), Member("ip", JStr("10.42.0.154"))>>

incomplete_data(ip, screen) ==
    <<Lit(PREFIX)>> \o json_dumps(
        << <<"ip", JStr(ip)>>,
           <<"screen_type", JStr(screen.screen_type)>>,
           <<"screen_width_px", JNum(screen.width)>>,
           <<"screen_height_px", JNum(screen.height)>> >>)

\* Where the i-th barcode's first corner lies in the photograph.
SlotOrigin(i) == Point(10 * (i - 1), 4 * (i - 1))

\* The four corners cv2 reports for a square marker whose top edge is the
\* vector e from its first corner: clockwise in image coordinates (y down).
MarkerPoints(origin, e) ==
    << origin,
       Point(origin.x + e.x, origin.y + e.y),
       Point(origin.x + e.x - e.y, origin.y + e.y + e.x),
       Point(origin.x - e.y, origin.y + e.x) >>

\* The text a scene item shows, as a list: empty when it shows none (the
\* encoder raised, so the panel has no image).
ShownData(i) ==
    LET item == scene[i]
    IN  CASE item.kind = "panel" ->
               IF qrImages[i].status = "returned"
                 THEN <<qrImages[i].value.data>>
                 ELSE <<>>
          [] item.kind = "printed" -> <<printed_data(HostOf(i), item.screen)>>
          [] item.kind = "foreign" -> <<foreign_data>>
          [] item.kind = "incomplete" -> <<incomplete_data(HostOf(i), item.screen)>>
          [] OTHER -> <<truncated_data>>

RECURSIVE Barcodes(_)
Barcodes(i) ==
    IF i > Len(scene)
      THEN <<>>
      ELSE (IF ShownData(i) = <<>>
              THEN <<>>
              ELSE << [data |-> ShownData(i)[1],
                       points |-> MarkerPoints(SlotOrigin(i), scene[i].edge)] >>)
           \o Barcodes(i + 1)

QRIdle ==
    /\ scene = <<>>
    /\ qrImages = <<>>
    /\ photo = NotCalled
    /\ detected = NotCalled
    /\ positions = NotCalled

QRInit ==
    /\ scene \in Scenes
    /\ qrImages = [i \in 1..Len(scene) |-> NotCalled]
    /\ photo = NotCalled
    /\ detected = NotCalled
    /\ positions = NotCalled

\* generate_all_positioning_qr_images: the encoder is called for each panel
\* in turn with the panel's reported width and height.
GenerateQR(i) ==
    /\ UNCHANGED notQR
    /\ photo = NotCalled
    /\ scene[i].kind = "panel"
    /\ qrImages[i] = NotCalled
    /\ \A j \in 1..(i - 1) : scene[j].kind = "panel" => qrImages[j] # NotCalled
    /\ qrImages' = [qrImages EXCEPT ![i] =
                       generate_positioning_qr_image(HostOf(i), scene[i].screen.screen_type,
                                                     scene[i].screen.width,
                                                     scene[i].screen.height)]
    /\ UNCHANGED <<scene, photo, detected, positions>>

\* The photograph is taken once every panel has been asked to show its
\* marker; cv2 reads the barcodes in scene order.
TakePhotograph ==
    /\ UNCHANGED notQR
    /\ photo = NotCalled
    /\ \A i \in 1..Len(scene) : scene[i].kind = "panel" => qrImages[i] # NotCalled
    /\ photo' = Returned(Barcodes(1))
    /\ UNCHANGED <<scene, qrImages, detected, positions>>

DetectQRPositions ==
    /\ UNCHANGED notQR
    /\ photo # NotCalled
    /\ detected = NotCalled
    /\ detected' = Returned(detect_qr_positions(photo.value))
    /\ UNCHANGED <<scene, qrImages, photo, positions>>

CalculatePhysicalPositions ==
    /\ UNCHANGED notQR
    /\ detected # NotCalled
    /\ positions = NotCalled
    /\ positions' = calculate_physical_positions(detected.value)
    /\ UNCHANGED <<scene, qrImages, photo, detected>>

QRNext ==
    \/ \E i \in 1..Len(scene) : GenerateQR(i)
    \/ TakePhotograph
    \/ DetectQRPositions
    \/ CalculatePhysicalPositions

-----------------------------------------------------------------------------
(* The tiling arithmetic of send_image (controller.py) *)

\* The triples (v, num, den) for which the float product v * (num / den)
\* falls below the integer v * num / den, so that int() gives one less:
\* 21 * (51 / 21) is 50.99999999999999.  Computed for v in 0..21, den in
\* 1..21 and the image sizes below; there is no other such triple among them.
FloatRoundsBelow == {<<21, 51, 21>>}

\* int(v * mm_to_px_ratio) for v >= 0 and mm_to_px_ratio = num / den
IntTimesRatio(v, num, den) ==
    LET exact == (v * num) \div den
    IN  IF <<v, num, den>> \in FloatRoundsBelow THEN exact - 1 ELSE exact

\* _scale_image_to_layout: mm_to_px_ratio = min(scale_x, scale_y) and the
\* size of the scaled image.  PIL.ImageOps.fit divides by the target height
\* and refuses to resize to an empty size.
scale_image_to_layout(image, layout_dimensions) ==
    LET image_width == image.width
        image_height == image.height
        layout_width == layout_dimensions.width
        layout_height == layout_dimensions.height
    IN  IF layout_width = 0 \/ layout_height = 0
          THEN Raised("ZeroDivisionError")
          ELSE
            LET x_limits == image_width * layout_height <= image_height * layout_width
                num == IF x_limits THEN image_width ELSE image_height
                den == IF x_limits THEN layout_width ELSE layout_height
                target_width == IntTimesRatio(layout_width, num, den)
                target_height == IntTimesRatio(layout_height, num, den)
            IN  IF target_height = 0 THEN Raised("ZeroDivisionError")
                ELSE IF target_width = 0 THEN Raised("ValueError")
                ELSE Returned([width |-> target_width, height |-> target_height,
                               num |-> num, den |-> den])

\* v * mm_to_px_ratio rounded to the nearest integer, halves upwards
RoundTimesRatio(v, num, den) == (2 * v * num + den) \div (2 * den)

\* The mutant of device_rect_px that rounds each component to the nearest
\* integer.
DeviceRectRounded(rect_mm, bounding_rect_mm, num, den) ==
    Rectangle(Point(RoundTimesRatio(rect_mm.start.x - bounding_rect_mm.start.x, num, den),
                    RoundTimesRatio(rect_mm.start.y - bounding_rect_mm.start.y, num, den)),
              Dimensions(RoundTimesRatio(rect_mm.dimensions.width, num, den),
                         RoundTimesRatio(rect_mm.dimensions.height, num, den)))

\* The rectangle of a device in the scaled image (controller.py:45-54)
device_rect_px(rect_mm, bounding_rect_mm, num, den) ==
    Rectangle(Point(IntTimesRatio(rect_mm.start.x - bounding_rect_mm.start.x, num, den),
                    IntTimesRatio(rect_mm.start.y - bounding_rect_mm.start.y, num, den)),
              Dimensions(IntTimesRatio(rect_mm.dimensions.width, num, den),
                         IntTimesRatio(rect_mm.dimensions.height, num, den)))

\* The mutant of crop_device_section that crops the rectangle as it is.
CropWithoutClipping(scaled_image, rect_px) ==
    Returned([box |-> [left |-> rect_px.start.x, top |-> rect_px.start.y,
                       right |-> rect_px.start.x + rect_px.dimensions.width,
                       bottom |-> rect_px.start.y + rect_px.dimensions.height],
              size |-> rect_px.dimensions,
              paste |-> Point(0, 0),
              padded |-> FALSE])

\* _crop_device_section: the box cropped from the scaled image, the size of
\* the tile returned, and where the cropped part is pasted when the tile is
\* padded.  Image.crop refuses a box whose right is left of its left.
crop_device_section(scaled_image, rect_px) ==
    LET left == Max(0, rect_px.start.x)
        top == Max(0, rect_px.start.y)
        right == Min(scaled_image.width, rect_px.start.x + rect_px.dimensions.width)
        bottom == Min(scaled_image.height, rect_px.start.y + rect_px.dimensions.height)
        expected_width == rect_px.dimensions.width
        expected_height == rect_px.dimensions.height
        padded == <<right - left, bottom - top>> # <<expected_width, expected_height>>
    IN  IF right < left \/ bottom < top
          THEN Raised("ValueError")
          ELSE Returned([box |-> [left |-> left, top |-> top,
                                  right |-> right, bottom |-> bottom],
                         size |-> IF padded
                                    THEN Dimensions(expected_width, expected_height)
                                    ELSE Dimensions(right - left, bottom - top),
                         paste |-> IF padded
                                     THEN Point(Max(0, 0 - rect_px.start.x),
                                                Max(0, 0 - rect_px.start.y))
                                     ELSE Point(0, 0),
                         padded |-> padded])

\* Layouts: panels of one height on a small grid, and two panels 7 and 14
\* wide side by side.
TilePanels ==
    {Rectangle(Point(x, y), Dimensions(w, TilePanelHeight)) :
        x \in 0..TileMaxCoord, y \in 0..TileMaxCoord, w \in 1..TileMaxDim}

WideLayout ==
    << Rectangle(Point(0, 0), Dimensions(7, TilePanelHeight)),
       Rectangle(Point(7, 0), Dimensions(14, TilePanelHeight)) >>

TileLayouts == UNION {[1..n -> TilePanels] : n \in 1..TileMaxPanels} \cup {WideLayout}

\* image.size of the source image
TileImages ==
    {Dimensions(1, 1), Dimensions(2, 1), Dimensions(3, 3), Dimensions(4, 2),
     Dimensions(51, 40)}

TileIdle ==
    /\ tileLayout = <<>>
    /\ tileImage = Dimensions(0, 0)
    /\ scaled = NotCalled
    /\ tiles = <<>>

TileInit ==
    /\ tileLayout \in TileLayouts
    /\ tileImage \in TileImages
    /\ scaled = NotCalled
    /\ tiles = <<>>

\* send_image, steps 1 and 2: the bounding rectangle and the scaled image
TileScale ==
    /\ UNCHANGED notTile
    /\ scaled = NotCalled
    /\ LET bounding == bounding_rectangle(tileLayout)
       IN  IF bounding.status # "returned"
             THEN scaled' = bounding
             ELSE LET s == scale_image_to_layout(tileImage, bounding.value.dimensions)
                  IN  scaled' = IF s.status = "returned"
                                  THEN Returned([width |-> s.value.width,
                                                 height |-> s.value.height,
                                                 num |-> s.value.num,
                                                 den |-> s.value.den,
                                                 bounding_rect_mm |-> bounding.value])
                                  ELSE s
    /\ UNCHANGED <<tileLayout, tileImage, tiles>>

\* send_image, step 3 for the next device: its rectangle in the scaled image
\* and its tile
TileDevice ==
    /\ UNCHANGED notTile
    /\ scaled.status = "returned"
    /\ Len(tiles) < Len(tileLayout)
    /\ \A i \in 1..Len(tiles) : tiles[i].status = "returned"
    /\ LET rect_mm == tileLayout[Len(tiles) + 1]
           rect_px == device_rect_px(rect_mm, scaled.value.bounding_rect_mm,
                                     scaled.value.num, scaled.value.den)
           cropped == crop_device_section(scaled.value, rect_px)
       IN  tiles' = Append(tiles,
                           IF cropped.status = "returned"
                             THEN Returned([rect_px |-> rect_px,
                                            box |-> cropped.value.box,
                                            size |-> cropped.value.size,
                                            paste |-> cropped.value.paste,
                                            padded |-> cropped.value.padded])
                             ELSE cropped)
    /\ UNCHANGED <<tileLayout, tileImage, scaled>>

TileNext == TileScale \/ TileDevice

-----------------------------------------------------------------------------
(* One call of generate_positioning_qr_image *)

\* Device ids: an address, and a host name long enough for a larger barcode.
EncHosts == {"10.42.0.154", "tapestry-panel-01.lan.example"}

EncScreenTypes == SCREEN_TYPES \cup {"ED999"}

EncWidths == {160, 1024, 1200}

EncHeights == {120, 163, 164, 165, 179, 180, 768, 825}

NoArgs == [ip |-> "", screen_type_name |-> "", width |-> 0, height |-> 0]

EncIdle == encArgs = NoArgs /\ encImage = NotCalled

EncInit ==
    /\ encArgs \in [ip : EncHosts, screen_type_name : EncScreenTypes,
                    width : EncWidths, height : EncHeights]
    /\ encImage = NotCalled

EncGenerate ==
    /\ UNCHANGED notEnc
    /\ encImage = NotCalled
    /\ encImage' = generate_positioning_qr_image(encArgs.ip, encArgs.screen_type_name,
                                                 encArgs.width, encArgs.height)
    /\ UNCHANGED encArgs

EncNext == EncGenerate

-----------------------------------------------------------------------------
(* perspective_correction.correct_perspective_distortion *)

MaxMarkers == 3

CorrectedQRData(original, corrected_center, corrected_corners, corrected_screen_corners, rectangularity_score) ==
    [original |-> original, corrected_center |-> corrected_center,
     corrected_corners |-> corrected_corners,
     corrected_screen_corners |-> corrected_screen_corners,
     rectangularity_score |-> rectangularity_score]

\* What cv2.findHomography can give: a matrix (modelled by the translation
\* it applies), None, or an exception.
Homography(dx, dy) == [kind |-> "H", dx |-> dx, dy |-> dy]

eye == Homography(0, 0)

FindHomographyOutcomes ==
    {Homography(0, 0), Homography(1, 0), Homography(-1, 2),
     [kind |-> "None", dx |-> 0, dy |-> 0], [kind |-> "error", dx |-> 0, dy |-> 0]}

perspectiveTransform(pts, H) ==
    [i \in 1..Len(pts) |-> Point(pts[i].x + H.dx, pts[i].y + H.dy)]

\* len(actual_corners_all): four corners for every marker that has screen
\* corners.
RECURSIVE actual_corners_count(_)
actual_corners_count(qr_data_list) ==
    IF qr_data_list = <<>>
      THEN 0
      ELSE Len(Head(qr_data_list).screen_corners)
           + actual_corners_count(Tail(qr_data_list))

\* Step 6 is reached with two markers or more and calls cv2.findHomography
\* when len(ideal_corners_all) >= 8.
FitAttempted(qr_data_list) ==
    Len(qr_data_list) >= 2 /\ actual_corners_count(qr_data_list) >= 8

\* H after step 6, cv2.findHomography giving `outcome` if it is called.
StepSixHomography(qr_data_list, outcome) ==
    IF FitAttempted(qr_data_list) /\ outcome.kind = "H" THEN outcome ELSE eye

correct_perspective_distortion(qr_data_list, outcome) ==
    IF Len(qr_data_list) < 2
      THEN Returned([i \in 1..Len(qr_data_list) |->
                         CorrectedQRData(qr_data_list[i], qr_data_list[i].center,
                                         qr_data_list[i].corners,
                                         qr_data_list[i].screen_corners, ScoreOne)])
      ELSE
        LET H == StepSixHomography(qr_data_list, outcome)
            score(qr) == IF qr.screen_corners # <<>>
                           THEN calculate_rectangularity_score(qr.screen_corners)
                           ELSE ScoreOne \div 2
        IN  Returned([i \in 1..Len(qr_data_list) |->
                CorrectedQRData(qr_data_list[i],
                    perspectiveTransform(<<qr_data_list[i].center>>, H)[1],
                    perspectiveTransform(qr_data_list[i].corners, H),
                    perspectiveTransform(qr_data_list[i].screen_corners, H),
                    score(qr_data_list[i]))])

\* The markers given to the call: at two places of the photograph, with the
\* screen corners of an upright screen, of a screen seen at an angle, or
\* without screen corners.
PerspMarker(hostname, c, screen_corners) ==
    QRPositionData(hostname, "ED097TC2", c, 0,
                   <<Point(c.x - 1, c.y - 1), Point(c.x + 1, c.y - 1),
                     Point(c.x + 1, c.y + 1), Point(c.x - 1, c.y + 1)>>,
                   <<c.x - 1, c.y - 1, c.x + 1, c.y + 1>>, 1200, 825, 618,
                   screen_corners)

PerspMarkers ==
    UNION { LET c == Point(4 * k, 4)
            IN  { PerspMarker(HostNames[k], c, <<>>),
                  PerspMarker(HostNames[k], c,
                              <<Point(c.x - 2, c.y - 1), Point(c.x + 2, c.y - 1),
                                Point(c.x + 2, c.y + 1), Point(c.x - 2, c.y + 1)>>),
                  PerspMarker(HostNames[k], c,
                              <<Point(c.x - 2, c.y - 1), Point(c.x + 2, c.y - 2),
                                Point(c.x + 2, c.y + 2), Point(c.x - 2, c.y + 1)>>) } :
            k \in 1..2 }

PerspIdle == perspIn = <<>> /\ fitCalls = <<>> /\ perspOut = NotCalled

PerspInit ==
    /\ perspIn \in UNION {[1..n -> PerspMarkers] : n \in 0..MaxMarkers}
    /\ fitCalls = <<>>
    /\ perspOut = NotCalled

CorrectPerspective ==
    /\ UNCHANGED notPersp
    /\ perspOut = NotCalled
    /\ \E outcome \in FindHomographyOutcomes :
           /\ perspOut' = correct_perspective_distortion(perspIn, outcome)
           /\ fitCalls' = IF FitAttempted(perspIn)
                            THEN <<[pairs |-> actual_corners_count(perspIn),
                                    outcome |-> outcome]>>
                            ELSE <<>>
    /\ UNCHANGED perspIn

PerspNext == CorrectPerspective

-----------------------------------------------------------------------------
(* Recalibration: position_detection.generate_updated_config and the web
   handlers that produce and apply it *)

MaxRecalBarcodes == 2

\* One entry of the `devices` list.
device_config(ip, pos_data) ==
    [host |-> ip,
     screen_type |-> pos_data.screen_type,
     coordinates |-> Point(pos_data.x \div Fix, pos_data.y \div Fix),
     rotation |-> pos_data.rotation,
     detected_dimensions |-> Dimensions(pos_data.detected_width \div Fix,
                                        pos_data.detected_height \div Fix)]

\* As generate_updated_config, but the devices of the original configuration
\* that were not detected are kept.
GenerateKeepingUndetected(original_config, new_positions) ==
    [devices |-> {device_config(ip, new_positions[ip]) : ip \in DOMAIN new_positions}
                 \cup {d \in original_config : d.host \notin DOMAIN new_positions}]

\* original_config is not read.
generate_updated_config(original_config, new_positions) ==
    [devices |-> {device_config(ip, new_positions[ip]) : ip \in DOMAIN new_positions}]

\* models.load_config: the devices listed in the file.
load_config(file) == file.devices

\* The configurations in place before the recalibration.
OldDevice(host, x) ==
    [host |-> host, screen_type |-> "ED097TC2", coordinates |-> Point(x, 7),
     rotation |-> 90, detected_dimensions |-> Dimensions(203, 139)]

OldConfigs ==
    { {}, {OldDevice(HostNames[3], 500)},
      {OldDevice(HostNames[1], 300), OldDevice(HostNames[3], 500)} }

\* The markers in the photograph: printed markers of two devices.
RecalBarcode(i, host, screen, edge) ==
    [data |-> printed_data(host, screen), points |-> MarkerPoints(SlotOrigin(i), edge)]

RecalPhotos ==
    UNION { { [i \in 1..n |-> RecalBarcode(i, f[i][1], f[i][2], f[i][3])] :
                f \in [1..n -> {HostNames[1], HostNames[2]}
                               \X {Screen("ED060XC3", 1024, 768), Screen("ED999", 1024, 768)}
                               \X {Point(2, 0), Point(0, 2)}] } :
            n \in 0..MaxRecalBarcodes }

RecalIdle ==
    /\ recalPhoto = <<>>
    /\ dhcpIps = {}
    /\ lastImage = FALSE
    /\ ctlConfig = {}
    /\ devicesFile = [devices |-> {}, screen_types |-> FALSE]
    /\ analysis = NotCalled
    /\ applied = NotCalled

RecalInit ==
    /\ recalPhoto \in RecalPhotos
    /\ dhcpIps \in {{}, {HostNames[3]}}
    /\ lastImage \in BOOLEAN
    /\ ctlConfig \in OldConfigs
    /\ devicesFile = [devices |-> ctlConfig, screen_types |-> ctlConfig # {}]
    /\ analysis = NotCalled
    /\ applied = NotCalled

\* POST /positioning/analyze
AnalyzePhoto ==
    /\ UNCHANGED notRecal
    /\ analysis = NotCalled
    /\ LET position_data == detect_qr_positions(recalPhoto)
           physical_positions == calculate_physical_positions(position_data)
       IN  analysis' =
             IF position_data = <<>>
               THEN Raised("400: No QR codes detected in the photo")
             ELSE IF physical_positions.status # "returned"
               THEN Raised("500: Failed to analyze photo")
             ELSE IF DOMAIN physical_positions.value = {}
               THEN Raised("400: Could not calculate physical positions")
             ELSE Returned(
                    [detected_devices |-> DOMAIN physical_positions.value,
                     positions |-> physical_positions.value,
                     config |-> generate_updated_config(ctlConfig, physical_positions.value),
                     has_missing_devices |->
                         dhcpIps \ DOMAIN physical_positions.value # {}])
    /\ UNCHANGED <<recalPhoto, dhcpIps, lastImage, ctlConfig, devicesFile, applied>>

\* POST /positioning/apply with the config of the analysis: the file is
\* rewritten with the posted devices (and the screen_types key it had), the
\* controller reloads it, and the saved image is sent again.
ApplyConfig(confirmed, send_image_raises) ==
    /\ UNCHANGED notRecal
    /\ analysis.status = "returned"
    /\ applied.status # "returned"
    /\ IF analysis.value.has_missing_devices /\ ~confirmed
         THEN /\ applied' = Raised("400: Confirmation required")
              /\ UNCHANGED <<ctlConfig, devicesFile>>
         ELSE LET updated_config ==
                      [devices |-> analysis.value.config.devices,
                       screen_types |-> devicesFile.screen_types]
              IN  /\ devicesFile' = updated_config
                  /\ ctlConfig' = load_config(updated_config)
                  /\ applied' = Returned([success |-> TRUE,
                                          restored_image |-> lastImage /\ ~send_image_raises])
    /\ UNCHANGED <<recalPhoto, dhcpIps, lastImage, analysis>>

RecalNext ==
    \/ AnalyzePhoto
    \/ \E confirmed \in BOOLEAN, send_image_raises \in BOOLEAN :
           ApplyConfig(confirmed, send_image_raises)

-----------------------------------------------------------------------------
(* webui/screensaver.py: ScreensaverManager.start and stop *)

MaxStarts == 2

\* The configurations given to start: type "" stands for a missing type,
\* wallpapers_dir "" for a missing one, api_key "" for a missing key.
SaverConfigs ==
    [type : {"", "gallery", "pixabay"},
     wallpapers_dir : {"", "/nonexistent", "/empty", "/wallpapers"},
     api_key : {"", "key"}]

NoConfig == [type |-> "", wallpapers_dir |-> "", api_key |-> ""]

\* The file system: the directories that exist and the images they hold.
path_exists(dir) == dir \in {"/empty", "/wallpapers"}

get_gallery_images(dir) == IF dir = "/wallpapers" THEN {"a.jpg", "b.png"} ELSE {}

\* _validate_config returns None or raises ValueError.
validate_config(config) ==
    IF config.type = ""
      THEN Raised("ValueError")
    ELSE IF config.type = "gallery"
      THEN IF config.wallpapers_dir = "" \/ ~path_exists(config.wallpapers_dir)
             THEN Raised("ValueError")
           ELSE IF get_gallery_images(config.wallpapers_dir) = {}
             THEN Raised("ValueError")
           ELSE Returned("None")
    ELSE IF config.type = "pixabay"
      THEN IF config.api_key = "" THEN Raised("ValueError") ELSE Returned("None")
    ELSE Returned("None")

\* The manager after __init__.
SaverInit ==
    /\ ssActive = FALSE
    /\ ssThread = FALSE
    /\ ssCurrent = NoConfig
    /\ ssStarted = 0
    /\ ssArg = NoConfig
    /\ ssCall = NotCalled

SaverStart(config) ==
    /\ UNCHANGED notSaver
    /\ ssStarted < MaxStarts
    /\ ssArg' = config
    /\ IF ssActive
         THEN /\ ssCall' = Raised("RuntimeError")
              /\ UNCHANGED <<ssActive, ssThread, ssCurrent, ssStarted>>
         ELSE IF validate_config(config).status = "raised"
           THEN /\ ssCall' = validate_config(config)
                /\ UNCHANGED <<ssActive, ssThread, ssCurrent, ssStarted>>
           ELSE /\ ssCurrent' = config
                /\ ssThread' = TRUE
                /\ ssActive' = TRUE
                /\ ssStarted' = ssStarted + 1
                /\ ssCall' = Returned("None")

SaverStop ==
    /\ UNCHANGED notSaver
    /\ ssActive
    /\ ssActive' = FALSE
    /\ ssThread' = FALSE
    /\ ssCurrent' = NoConfig
    /\ UNCHANGED <<ssStarted, ssArg, ssCall>>

SaverNext ==
    \/ \E config \in SaverConfigs : SaverStart(config)
    \/ SaverStop

-----------------------------------------------------------------------------
-----------------------------------------------------------------------------
(* _crop_device_section called on any rectangle (controller.py:102-130) *)

CropMaxOffset == 3
CropMaxDim == 2

\* The tile when Image.crop is given a box with right < left or bottom < top
\* and returns an image that is empty in that direction, as Pillow releases
\* without the check of the box do; releases with the check raise ValueError,
\* which is the outcome crop_device_section describes.
crop_device_section_unchecked(scaled_image, rect_px) ==
    LET left == Max(0, rect_px.start.x)
        top == Max(0, rect_px.start.y)
        right == Min(scaled_image.width, rect_px.start.x + rect_px.dimensions.width)
        bottom == Min(scaled_image.height, rect_px.start.y + rect_px.dimensions.height)
        cropped_width == Max(0, right - left)
        cropped_height == Max(0, bottom - top)
        expected_width == rect_px.dimensions.width
        expected_height == rect_px.dimensions.height
        padded == <<cropped_width, cropped_height>> # <<expected_width, expected_height>>
    IN  Returned([box |-> [left |-> left, top |-> top,
                           right |-> left + cropped_width,
                           bottom |-> top + cropped_height],
                  size |-> IF padded
                             THEN Dimensions(expected_width, expected_height)
                             ELSE Dimensions(cropped_width, cropped_height),
                  paste |-> IF padded
                              THEN Point(Max(0, 0 - rect_px.start.x),
                                         Max(0, 0 - rect_px.start.y))
                              ELSE Point(0, 0),
                  padded |-> padded])

\* What the call can produce on the installed Pillow.
crop_outcomes(scaled_image, rect_px) ==
    {crop_device_section(scaled_image, rect_px),
     crop_device_section_unchecked(scaled_image, rect_px)}

\* A pixel of a tile: white padding, or the pixel (x, y) of the scaled image.
White == [colour |-> "white", x |-> 0, y |-> 0]
ImagePixel(x, y) == [colour |-> "image", x |-> x, y |-> y]

\* The pixel at (i, j) of the tile t: Image.paste puts the cropped part at
\* t.paste on the white background; an unpadded tile is the cropped part.
TilePixel(t, i, j) ==
    LET a == i - t.paste.x
        b == j - t.paste.y
    IN  IF /\ 0 <= a /\ a < t.box.right - t.box.left
           /\ 0 <= b /\ b < t.box.bottom - t.box.top
          THEN ImagePixel(t.box.left + a, t.box.top + b)
          ELSE White

CropImages == {Dimensions(2, 2), Dimensions(3, 1)}

CropRects ==
    {Rectangle(Point(x, y), Dimensions(w, h)) :
        x \in (0 - CropMaxOffset)..CropMaxOffset, y \in (0 - CropMaxOffset)..CropMaxOffset,
        w \in 0..CropMaxDim, h \in 0..CropMaxDim}

NoRect == Rectangle(Point(0, 0), Dimensions(0, 0))

CropIdle == cropImage = Dimensions(0, 0) /\ cropRect = NoRect /\ cropOut = NotCalled

CropInit ==
    /\ cropImage \in CropImages
    /\ cropRect \in CropRects
    /\ cropOut = NotCalled

\* One call of _crop_device_section(scaled_image, device_rect_px)
CropDeviceSection ==
    /\ UNCHANGED notCrop
    /\ cropOut = NotCalled
    /\ cropOut' \in crop_outcomes(cropImage, cropRect)
    /\ UNCHANGED <<cropImage, cropRect>>

CropNext == CropDeviceSection

-----------------------------------------------------------------------------
(* webui/screensaver.py: the manager together with its worker threads *)

MaxWorkers == 2
MaxSent == 2

\* The worker threads and the Event objects that start() can create: the
\* k-th successful start creates thread k and event k.  0 stands for None.
Workers == 1..MaxWorkers

\* The configurations given to start here: one that _validate_config accepts
\* and one that it rejects; both carry an interval.
WorkerConfigs ==
    {[type |-> "gallery", wallpapers_dir |-> "/wallpapers", api_key |-> ""],
     [type |-> "gallery", wallpapers_dir |-> "/empty", api_key |-> ""]}

\* A thread that has been started and has not ended.
is_alive(w) == wpc[w] \in {"check", "sending", "wait"}

WorkerIdle ==
    /\ mgr_active = FALSE
    /\ mgr_stop_event = 0
    /\ mgr_thread = 0
    /\ mgr_current_config = FALSE
    /\ event_set = <<>>
    /\ wpc = <<>>
    /\ wsent = <<>>
    /\ stop_pc = "idle"
    /\ stopped = {}
    /\ sent_after_stop = {}
    /\ mgr_call = NotCalled

\* ScreensaverManager.__init__
WorkerInit ==
    /\ mgr_active = FALSE
    /\ mgr_stop_event = 0
    /\ mgr_thread = 0
    /\ mgr_current_config = FALSE
    /\ event_set = [e \in Workers |-> FALSE]
    /\ wpc = [w \in Workers |-> "unborn"]
    /\ wsent = [w \in Workers |-> 0]
    /\ stop_pc = "idle"
    /\ stopped = {}
    /\ sent_after_stop = {}
    /\ mgr_call = NotCalled

\* start(config), lines 42-64: a new Event and a new thread on every
\* successful call.
WorkerStart(config) ==
    /\ UNCHANGED notWorker
    /\ stop_pc = "idle"
    /\ IF mgr_active
         THEN /\ mgr_call' = Raised("RuntimeError")
              /\ UNCHANGED <<mgr_active, mgr_stop_event, mgr_thread, mgr_current_config,
                             event_set, wpc>>
         ELSE IF validate_config(config).status = "raised"
           THEN /\ mgr_call' = validate_config(config)
                /\ UNCHANGED <<mgr_active, mgr_stop_event, mgr_thread, mgr_current_config,
                               event_set, wpc>>
           ELSE /\ \E w \in Workers :
                     /\ wpc[w] = "unborn"
                     /\ \A v \in Workers : v < w => wpc[v] # "unborn"
                     /\ mgr_stop_event' = w
                     /\ mgr_thread' = w
                     /\ wpc' = [wpc EXCEPT ![w] = "check"]
                /\ mgr_current_config' = TRUE
                /\ mgr_active' = TRUE
                /\ mgr_call' = Returned("None")
                /\ UNCHANGED event_set
    /\ UNCHANGED <<wsent, stop_pc, stopped, sent_after_stop>>

\* stop(), lines 72-79: return when inactive; otherwise set the event and
\* join the thread, if it is alive, for at most the timeout.
WorkerStopBegin ==
    /\ UNCHANGED notWorker
    /\ stop_pc = "idle"
    /\ IF ~mgr_active
         THEN /\ mgr_call' = Returned("None")
              /\ UNCHANGED <<event_set, stop_pc>>
         ELSE /\ event_set' = IF mgr_stop_event # 0
                                THEN [event_set EXCEPT ![mgr_stop_event] = TRUE]
                                ELSE event_set
              /\ stop_pc' = "joining"
              /\ mgr_call' = NotCalled
    /\ UNCHANGED <<mgr_active, mgr_stop_event, mgr_thread, mgr_current_config, wpc,
                   wsent, stopped, sent_after_stop>>

\* stop(), lines 79-86: join returns when the thread has ended, or when the
\* timeout has passed while the thread is inside image_sender; then the
\* manager's fields are reset whether or not the thread is still alive.
WorkerStopEnd ==
    /\ UNCHANGED notWorker
    /\ stop_pc = "joining"
    /\ ~is_alive(mgr_thread) \/ wpc[mgr_thread] = "sending"
    /\ mgr_active' = FALSE
    /\ stopped' = stopped \cup {mgr_thread}
    /\ mgr_thread' = 0
    /\ mgr_stop_event' = 0
    /\ mgr_current_config' = FALSE
    /\ stop_pc' = "idle"
    /\ mgr_call' = Returned("None")
    /\ UNCHANGED <<event_set, wpc, wsent, sent_after_stop>>

\* next_image(), lines 88-111: False without a configuration; otherwise an
\* image is fetched and sent from the caller's thread.
WorkerNextImage(got_image) ==
    /\ UNCHANGED notWorker
    /\ stop_pc = "idle"
    /\ mgr_call' = Returned(IF mgr_current_config /\ got_image THEN "True" ELSE "False")
    /\ UNCHANGED <<mgr_active, mgr_stop_event, mgr_thread, mgr_current_config, event_set,
                   wpc, wsent, stop_pc, stopped, sent_after_stop>>

\* _worker, line 135: the loop condition reads self._stop_event at that
\* moment; None has no is_set and the AttributeError ends the thread.  When
\* the event is not set an image is fetched and, if there is one, image_sender
\* is entered.
WorkerCheck(w, got_image) ==
    /\ UNCHANGED notWorker
    /\ wpc[w] = "check"
    /\ IF mgr_stop_event = 0 \/ event_set[mgr_stop_event]
         THEN /\ wpc' = [wpc EXCEPT ![w] = "exited"]
              /\ UNCHANGED sent_after_stop
         ELSE /\ wsent[w] < MaxSent
              /\ wpc' = [wpc EXCEPT ![w] = IF got_image THEN "sending" ELSE "wait"]
              /\ sent_after_stop' = IF got_image /\ w \in stopped
                                      THEN sent_after_stop \cup {w}
                                      ELSE sent_after_stop
    /\ UNCHANGED <<mgr_active, mgr_stop_event, mgr_thread, mgr_current_config, event_set,
                   wsent, stop_pc, stopped, mgr_call>>

\* _worker, line 139: image_sender returns (or raises, which is logged).
WorkerSent(w) ==
    /\ UNCHANGED notWorker
    /\ wpc[w] = "sending"
    /\ wpc' = [wpc EXCEPT ![w] = "wait"]
    /\ wsent' = [wsent EXCEPT ![w] = @ + 1]
    /\ UNCHANGED <<mgr_active, mgr_stop_event, mgr_thread, mgr_current_config, event_set,
                   stop_pc, stopped, sent_after_stop, mgr_call>>

\* _worker, line 149: self._stop_event.wait(interval) on the event the field
\* holds at that moment; it returns when that event is set or the interval
\* has passed.  None has no wait and the AttributeError ends the thread.
WorkerWait(w) ==
    /\ UNCHANGED notWorker
    /\ wpc[w] = "wait"
    /\ wpc' = [wpc EXCEPT ![w] = IF mgr_stop_event = 0 THEN "exited" ELSE "check"]
    /\ UNCHANGED <<mgr_active, mgr_stop_event, mgr_thread, mgr_current_config, event_set,
                   wsent, stop_pc, stopped, sent_after_stop, mgr_call>>

WorkerNext ==
    \/ \E config \in WorkerConfigs : WorkerStart(config)
    \/ WorkerStopBegin
    \/ WorkerStopEnd
    \/ \E got_image \in BOOLEAN : WorkerNextImage(got_image)
    \/ \E w \in Workers, got_image \in BOOLEAN : WorkerCheck(w, got_image)
    \/ \E w \in Workers : WorkerSent(w)
    \/ \E w \in Workers : WorkerWait(w)

-----------------------------------------------------------------------------
(* webui/process_manager.py and the output stream of webui/app.py *)

MaxLines == 2

\* The lines on the output queue: a line of the subprocess, and the two
\* closing lines.
OutputLine == "output"
FinishedLine == "Process finished with exit code"
TerminatedLine == "Process terminated by user"

StreamIdle ==
    /\ sp_process = "none"
    /\ sp_unwritten = 0
    /\ sp_pipe = 0
    /\ output_queue = <<>>
    /\ sp_finished = FALSE
    /\ reader_pc = "none"
    /\ stopper_pc = "idle"
    /\ client_pc = "none"
    /\ delivered = <<>>
    /\ placed = <<>>
    /\ events = 0
    /\ heartbeat = FALSE

\* ProcessManager.__init__: no process yet.
StreamInit == StreamIdle

\* start_process: the subprocess, which will write n lines, its
\* StreamingProcess with an empty queue, and the output thread.
StartProcess(n) ==
    /\ UNCHANGED notStream
    /\ sp_process = "none"
    /\ sp_process' = "running"
    /\ sp_unwritten' = n
    /\ reader_pc' = "read"
    /\ UNCHANGED <<sp_pipe, output_queue, sp_finished, stopper_pc, client_pc, delivered,
                   placed, events, heartbeat>>

\* The subprocess writes a line to its stdout.
ProcessWrites ==
    /\ UNCHANGED notStream
    /\ sp_process = "running"
    /\ sp_unwritten > 0
    /\ sp_unwritten' = sp_unwritten - 1
    /\ sp_pipe' = sp_pipe + 1
    /\ UNCHANGED <<sp_process, output_queue, sp_finished, reader_pc, stopper_pc, client_pc,
                   delivered, placed, events, heartbeat>>

\* The subprocess ends by itself.
ProcessExits ==
    /\ UNCHANGED notStream
    /\ sp_process = "running"
    /\ sp_process' = "exited"
    /\ UNCHANGED <<sp_unwritten, sp_pipe, output_queue, sp_finished, reader_pc, stopper_pc,
                   client_pc, delivered, placed, events, heartbeat>>

\* _stream_subprocess_output, lines 121-127: readline returns a line, which
\* is put on the queue, or "" at the end of the output of a process that has
\* ended, which leaves the loop.
ReaderReads ==
    /\ UNCHANGED notStream
    /\ reader_pc = "read"
    /\ IF sp_pipe > 0
         THEN /\ sp_pipe' = sp_pipe - 1
              /\ output_queue' = Append(output_queue, OutputLine)
              /\ placed' = Append(placed, OutputLine)
              /\ UNCHANGED reader_pc
         ELSE /\ sp_process = "exited"
              /\ reader_pc' = "mark"
              /\ UNCHANGED <<sp_pipe, output_queue, placed>>
    /\ UNCHANGED <<sp_process, sp_unwritten, sp_finished, stopper_pc, client_pc, delivered,
                   events, heartbeat>>

\* _stream_subprocess_output, lines 130-133: finished = True
ReaderMarks ==
    /\ UNCHANGED notStream
    /\ reader_pc = "mark"
    /\ sp_finished' = TRUE
    /\ reader_pc' = "final"
    /\ UNCHANGED <<sp_process, sp_unwritten, sp_pipe, output_queue, stopper_pc, client_pc,
                   delivered, placed, events, heartbeat>>

\* _stream_subprocess_output, lines 135-138: the closing line
ReaderPutsFinal ==
    /\ UNCHANGED notStream
    /\ reader_pc = "final"
    /\ output_queue' = Append(output_queue, FinishedLine)
    /\ placed' = Append(placed, FinishedLine)
    /\ reader_pc' = "done"
    /\ UNCHANGED <<sp_process, sp_unwritten, sp_pipe, sp_finished, stopper_pc, client_pc,
                   delivered, events, heartbeat>>

\* stop_process, lines 173-185: a process still running is terminated and
\* waited for (killed after 5 seconds).
StopTerminates ==
    /\ UNCHANGED notStream
    /\ sp_process # "none"
    /\ stopper_pc = "idle"
    /\ sp_process' = "exited"
    /\ stopper_pc' = "mark"
    /\ UNCHANGED <<sp_unwritten, sp_pipe, output_queue, sp_finished, reader_pc, client_pc,
                   delivered, placed, events, heartbeat>>

\* stop_process, lines 188-189: finished = True
StopMarks ==
    /\ UNCHANGED notStream
    /\ stopper_pc = "mark"
    /\ sp_finished' = TRUE
    /\ stopper_pc' = "put"
    /\ UNCHANGED <<sp_process, sp_unwritten, sp_pipe, output_queue, reader_pc, client_pc,
                   delivered, placed, events, heartbeat>>

\* stop_process, line 190: its closing line
StopPutsFinal ==
    /\ UNCHANGED notStream
    /\ stopper_pc = "put"
    /\ output_queue' = Append(output_queue, TerminatedLine)
    /\ placed' = Append(placed, TerminatedLine)
    /\ stopper_pc' = "done"
    /\ UNCHANGED <<sp_process, sp_unwritten, sp_pipe, sp_finished, reader_pc, client_pc,
                   delivered, events, heartbeat>>

\* ota_output_stream (and the flash stream): a client asks for the output of
\* the process.
ClientConnects ==
    /\ UNCHANGED notStream
    /\ sp_process # "none"
    /\ client_pc = "none"
    /\ client_pc' = "get"
    /\ UNCHANGED <<sp_process, sp_unwritten, sp_pipe, output_queue, sp_finished, reader_pc,
                   stopper_pc, delivered, placed, events, heartbeat>>

\* generate, lines 1497-1498 and 1505-1512: get(timeout=1.0) hands out the
\* head of the queue, which is sent; on queue.Empty the 'finished' event is
\* sent when finished is set, a heartbeat otherwise.
ClientGets ==
    /\ UNCHANGED notStream
    /\ client_pc = "get"
    /\ IF output_queue # <<>>
         THEN /\ delivered' = Append(delivered, Head(output_queue))
              /\ output_queue' = Tail(output_queue)
              /\ client_pc' = "check"
              /\ UNCHANGED <<events, heartbeat>>
         ELSE IF sp_finished
           THEN /\ events' = events + 1
                /\ client_pc' = "done"
                /\ UNCHANGED <<delivered, output_queue, heartbeat>>
           ELSE /\ heartbeat' = TRUE
                /\ UNCHANGED <<delivered, output_queue, events, client_pc>>
    /\ UNCHANGED <<sp_process, sp_unwritten, sp_pipe, sp_finished, reader_pc, stopper_pc,
                   placed>>

\* generate, lines 1500-1503: after a line, the 'finished' event when
\* finished is set and the queue is empty.
ClientChecks ==
    /\ UNCHANGED notStream
    /\ client_pc = "check"
    /\ IF sp_finished /\ output_queue = <<>>
         THEN /\ events' = events + 1
              /\ client_pc' = "done"
         ELSE /\ client_pc' = "get"
              /\ UNCHANGED events
    /\ UNCHANGED <<sp_process, sp_unwritten, sp_pipe, output_queue, sp_finished, reader_pc,
                   stopper_pc, delivered, placed, heartbeat>>

StreamNext ==
    \/ \E n \in 0..MaxLines : StartProcess(n)
    \/ ProcessWrites
    \/ ProcessExits
    \/ ReaderReads
    \/ ReaderMarks
    \/ ReaderPutsFinal
    \/ StopTerminates
    \/ StopMarks
    \/ StopPutsFinal
    \/ ClientConnects
    \/ ClientGets
    \/ ClientChecks

-----------------------------------------------------------------------------
(* webui/device_monitor.py: the statuses kept by DeviceMonitor *)

MaxMonitored == 2

MonitoredHosts == 1..MaxMonitored

\* What a GET on a device can do.
QueryOutcomes == {"ok", "error", "timeout"}

\* DeviceStatus(host=host): the fields the polls write, with their defaults.
\* "None" stands for None, "set" for a value.
DeviceStatus ==
    [online |-> FALSE, last_seen |-> "None", last_error |-> "None",
     response_time_ms |-> "None", width |-> "None", current_version |-> "None"]

\* _get_device_info and _get_ota_info: the decoded reply, or None when the
\* request raised, timed out or answered with an error status.
get_device_info(outcome) == IF outcome = "ok" THEN "set" ELSE "None"

get_ota_info(outcome) == IF outcome = "ok" THEN "set" ELSE "None"

MonitorIdle == device_statuses = <<>> /\ last_query = <<>>

\* DeviceMonitor.__init__ before any device list is given: no statuses.
MonitorInit ==
    /\ device_statuses = [h \in {} |-> DeviceStatus]
    /\ last_query = [h \in {} |-> "none"]

\* update_device_list(device_hosts): new hosts get a fresh status, hosts no
\* longer listed lose theirs.
UpdateDeviceList(device_hosts) ==
    /\ UNCHANGED notMonitor
    /\ device_hosts # DOMAIN device_statuses
    /\ device_statuses' = [h \in device_hosts |->
                              IF h \in DOMAIN device_statuses
                                THEN device_statuses[h]
                                ELSE DeviceStatus]
    /\ last_query' = [h \in device_hosts |->
                         IF h \in DOMAIN last_query THEN last_query[h] ELSE "none"]

\* _poll_device(host) for a host that has a status: the info query, then
\* online = True, last_seen, last_error = None and the response time; the
\* fields of the reply when there is one; then the same for the OTA query.
\* Neither query raises, so the except branch is never taken.
PollDevice(host, info_outcome, ota_outcome) ==
    /\ UNCHANGED notMonitor
    /\ host \in DOMAIN device_statuses
    /\ LET status == device_statuses[host]
           device_info == get_device_info(info_outcome)
           ota_info == get_ota_info(ota_outcome)
       IN  device_statuses' = [device_statuses EXCEPT ![host] =
               [status EXCEPT
                  !.online = TRUE, !.last_seen = "set", !.last_error = "None",
                  !.response_time_ms = "set",
                  !.width = IF device_info # "None" THEN "set" ELSE @,
                  !.current_version = IF ota_info # "None" THEN "set" ELSE @]]
    /\ last_query' = [last_query EXCEPT ![host] = info_outcome]

MonitorNext ==
    \/ \E device_hosts \in SUBSET MonitoredHosts : UpdateDeviceList(device_hosts)
    \/ \E host \in MonitoredHosts, info_outcome \in QueryOutcomes, ota_outcome \in QueryOutcomes :
           PollDevice(host, info_outcome, ota_outcome)

-----------------------------------------------------------------------------
(* The specifications *)

Init == SendInit /\ GeomIdle /\ DrawingIdle /\ QuadIdle /\ QRIdle /\ TileIdle /\ EncIdle /\ PerspIdle /\ RecalIdle /\ SaverInit /\ MemIdle /\ CropIdle /\ WorkerIdle /\ StreamIdle /\ MonitorIdle

Next == SendNext

Spec == Init /\ [][Next]_vars

InitGeom == GeomInit /\ SendIdle /\ DrawingIdle /\ QuadIdle /\ QRIdle /\ TileIdle /\ EncIdle /\ PerspIdle /\ RecalIdle /\ SaverInit /\ MemIdle /\ CropIdle /\ WorkerIdle /\ StreamIdle /\ MonitorIdle

NextGeom == GeomNext

SpecGeom == InitGeom /\ [][NextGeom]_vars

InitDrawing == DrawingInit /\ SendIdle /\ GeomIdle /\ QuadIdle /\ QRIdle /\ TileIdle /\ EncIdle /\ PerspIdle /\ RecalIdle /\ SaverInit /\ MemIdle /\ CropIdle /\ WorkerIdle /\ StreamIdle /\ MonitorIdle

NextDrawing == DrawingNext

SpecDrawing == InitDrawing /\ [][NextDrawing]_vars

InitQuad == QuadInit /\ SendIdle /\ GeomIdle /\ DrawingIdle /\ QRIdle /\ TileIdle /\ EncIdle /\ PerspIdle /\ RecalIdle /\ SaverInit /\ MemIdle /\ CropIdle /\ WorkerIdle /\ StreamIdle /\ MonitorIdle

NextQuad == QuadNext

SpecQuad == InitQuad /\ [][NextQuad]_vars

InitQR == QRInit /\ SendIdle /\ GeomIdle /\ DrawingIdle /\ QuadIdle /\ TileIdle /\ EncIdle /\ PerspIdle /\ RecalIdle /\ SaverInit /\ MemIdle /\ CropIdle /\ WorkerIdle /\ StreamIdle /\ MonitorIdle

NextQR == QRNext

SpecQR == InitQR /\ [][NextQR]_vars

InitTile == TileInit /\ SendIdle /\ GeomIdle /\ DrawingIdle /\ QuadIdle /\ QRIdle /\ EncIdle /\ PerspIdle /\ RecalIdle /\ SaverInit /\ MemIdle /\ CropIdle /\ WorkerIdle /\ StreamIdle /\ MonitorIdle

NextTile == TileNext

SpecTile == InitTile /\ [][NextTile]_vars

InitEnc == EncInit /\ SendIdle /\ GeomIdle /\ DrawingIdle /\ QuadIdle /\ QRIdle /\ TileIdle /\ PerspIdle /\ RecalIdle /\ SaverInit /\ MemIdle /\ CropIdle /\ WorkerIdle /\ StreamIdle /\ MonitorIdle

NextEnc == EncNext

SpecEnc == InitEnc /\ [][NextEnc]_vars

InitPersp == PerspInit /\ SendIdle /\ GeomIdle /\ DrawingIdle /\ QuadIdle /\ QRIdle /\ TileIdle /\ EncIdle /\ RecalIdle /\ SaverInit /\ MemIdle /\ CropIdle /\ WorkerIdle /\ StreamIdle /\ MonitorIdle

NextPersp == PerspNext

SpecPersp == InitPersp /\ [][NextPersp]_vars

InitRecal == RecalInit /\ SendIdle /\ GeomIdle /\ DrawingIdle /\ QuadIdle /\ QRIdle /\ TileIdle /\ EncIdle /\ PerspIdle /\ SaverInit /\ MemIdle /\ CropIdle /\ WorkerIdle /\ StreamIdle /\ MonitorIdle

NextRecal == RecalNext

SpecRecal == InitRecal /\ [][NextRecal]_vars

InitSaver == SaverInit /\ SendIdle /\ GeomIdle /\ DrawingIdle /\ QuadIdle /\ QRIdle /\ TileIdle /\ EncIdle /\ PerspIdle /\ RecalIdle /\ MemIdle /\ CropIdle /\ WorkerIdle /\ StreamIdle /\ MonitorIdle

NextSaver == SaverNext

SpecSaver == InitSaver /\ [][NextSaver]_vars

InitCrop == CropInit /\ SendIdle /\ GeomIdle /\ DrawingIdle /\ QuadIdle /\ QRIdle /\ TileIdle /\ EncIdle /\ PerspIdle /\ RecalIdle /\ SaverInit /\ MemIdle /\ WorkerIdle /\ StreamIdle /\ MonitorIdle

NextCrop == CropNext

SpecCrop == InitCrop /\ [][NextCrop]_vars

InitWorker == WorkerInit /\ SendIdle /\ GeomIdle /\ DrawingIdle /\ QuadIdle /\ QRIdle /\ TileIdle /\ EncIdle /\ PerspIdle /\ RecalIdle /\ CropIdle /\ SaverInit /\ MemIdle /\ StreamIdle /\ MonitorIdle

NextWorker == WorkerNext

SpecWorker == InitWorker /\ [][NextWorker]_vars

InitStream == StreamInit /\ SendIdle /\ GeomIdle /\ DrawingIdle /\ QuadIdle /\ QRIdle /\ TileIdle /\ EncIdle /\ PerspIdle /\ RecalIdle /\ CropIdle /\ WorkerIdle /\ SaverInit /\ MemIdle /\ MonitorIdle

NextStream == StreamNext

SpecStream == InitStream /\ [][NextStream]_vars

InitMonitor == MonitorInit /\ SendIdle /\ GeomIdle /\ DrawingIdle /\ QuadIdle /\ QRIdle /\ TileIdle /\ EncIdle /\ PerspIdle /\ RecalIdle /\ CropIdle /\ WorkerIdle /\ StreamIdle /\ SaverInit /\ MemIdle

NextMonitor == MonitorNext

SpecMonitor == InitMonitor /\ [][NextMonitor]_vars

-----------------------------------------------------------------------------
(* Claims about send_image / clear_devices, checked under Spec *)

\* A draw task of host h fails when its query or its push fails.
DrawFails(h) == devFail[h] \in {"query", "push"}

\* What the caller of send_image can read about host h from what the call
\* handed back: send_image has no return statement.
CallerSees(h) ==
    IF ret \in {"pending", NoneValue, "ValueError", "OSError"}
      THEN "unknown"
      ELSE ret[h]

Outcome(h) == IF tpc[h] = "done" THEN "ok" ELSE "failed"

SendReturned == op = "send" /\ cpc = "returned"

\* C1 (as claimed): when one of N >= 2 dispatches of a send_image raises, every
\* other dispatch has run to completion and the caller of send_image observes
\* the success of each of them.
C1_PartialFailureIsolation ==
    (SendReturned /\ Cardinality(devices) >= 2 /\ \E f \in devices : DrawFails(f))
        => \A h \in devices :
              ~DrawFails(h) => (tpc[h] = "done" /\ CallerSees(h) = "ok")

\* C2 (as claimed): send_image and clear_devices start exactly one task per
\* configured device and, returning normally or by raising, leave no started
\* task running.
C2_ForkJoin ==
    /\ cpc \in {"returned", "raised"}
          => \A i \in DOMAIN threads : Terminated(threads[i])
    /\ cpc = "returned"
          => /\ Range(threads) = devices
             /\ Len(threads) = Cardinality(devices)

\* C3 (as claimed): from the result of send_image the caller can tell, for
\* every panel, whether its dispatch succeeded or failed; the success line of
\* cli.main is printed only for a run in which every panel succeeded.
C3_PartialFailureSummary ==
    /\ SendReturned => \A h \in devices : CallerSees(h) = Outcome(h)
    /\ cliOut = "Successfully sent" => \A h \in devices : tpc[h] = "done"

-----------------------------------------------------------------------------
(* Claims about bounding_rectangle, checked under SpecDrawing *)

\* The corners of a rectangle rotated clockwise about its start: the start,
\* the start plus the width edge (length width, direction rotation_deg), the
\* start plus the height edge (length height, direction rotation_deg - 90),
\* and the start plus both; y grows downwards.
WidthEdge(r) ==
    Dimensions(r.dimensions.width * CosQ(r.rotation_deg),
               0 - r.dimensions.width * SinQ(r.rotation_deg))

HeightEdge(r) ==
    Dimensions(r.dimensions.height * CosQ(r.rotation_deg - 90),
               0 - r.dimensions.height * SinQ(r.rotation_deg - 90))

TrueCorners(r) ==
    { r.start,
      PointAdd(r.start, WidthEdge(r)),
      PointAdd(r.start, HeightEdge(r)),
      PointAdd(PointAdd(r.start, WidthEdge(r)), HeightEdge(r)) }

TrueCornersOf(rs) == UNION {TrueCorners(rs[i]) : i \in DOMAIN rs}

\* C5 (as claimed): for a non-empty list of rectangles, rotated ones included,
\* bounding_rectangle returns a rectangle of rotation 0 whose extents are
\* exactly [min x, max x] x [min y, max y] over the four corners of every input.
C5_BoundingRectangle ==
    (dbres.status = "returned" /\ drects # <<>>) =>
        LET b == dbres.value
            xs == {p.x : p \in TrueCornersOf(drects)}
            ys == {p.y : p \in TrueCornersOf(drects)}
        IN  /\ b.rotation_deg = 0
            /\ b.start.x = SetMin(xs)
            /\ b.start.y = SetMin(ys)
            /\ b.start.x + b.dimensions.width = SetMax(xs)
            /\ b.start.y + b.dimensions.height = SetMax(ys)

-----------------------------------------------------------------------------
(* Claims about corner lists, checked under SpecQuad *)

\* The corner list cs read from its (k+1)-th corner on, cyclically.
ShiftLeft(cs, k) == [i \in 1..4 |-> cs[((i - 1 + k) % 4) + 1]]

\* A perfect axis-aligned square in image coordinates (y grows downwards), in
\* the order top-left, top-right, bottom-right, bottom-left.
AxisSquare(cs) ==
    /\ Len(cs) = 4
    /\ \E side \in 1..QuadMaxCoord :
          /\ cs[2] = Point(cs[1].x + side, cs[1].y)
          /\ cs[3] = Point(cs[1].x + side, cs[1].y + side)
          /\ cs[4] = Point(cs[1].x, cs[1].y + side)

\* cs is such a square with its corner order shifted by k positions.
ShiftedSquare(cs, k) == Len(cs) = 4 /\ AxisSquare(ShiftLeft(cs, (4 - k) % 4))

\* C9: for an axis-aligned square in the order top-left, top-right,
\* bottom-right, bottom-left the extracted rotation is 0, and for the same
\* square with its corner order shifted by 1, 2, 3 positions it is 90, 180, 270.
C9_RotationOfShiftedSquare ==
    rotres.status = "returned" =>
        \A k \in 0..3 : ShiftedSquare(corners, k) => rotres.value = Deg(90 * k)

C9_Witness ==
    /\ rotres.status = "returned"
    /\ ShiftedSquare(corners, 3)
    /\ rotres.value = Deg(270)

\* The corner at index i (0-based) is a right angle: both edges leaving it
\* have a length and their dot product is 0.
RightAngleAt(cs, i) ==
    LET p1 == Pt(cs, i + 3)
        p2 == Pt(cs, i)
        p3 == Pt(cs, i + 1)
    IN  /\ p1 # p2
        /\ p3 # p2
        /\ (p1.x - p2.x) * (p3.x - p2.x) + (p1.y - p2.y) * (p3.y - p2.y) = 0

OppositeSidesEqual(cs) ==
    /\ SqLen(Pt(cs, 0), Pt(cs, 1)) = SqLen(Pt(cs, 2), Pt(cs, 3))
    /\ SqLen(Pt(cs, 1), Pt(cs, 2)) = SqLen(Pt(cs, 3), Pt(cs, 0))

PerfectRectangle(cs) ==
    /\ \A i \in 0..3 : RightAngleAt(cs, i)
    /\ OppositeSidesEqual(cs)

\* C10: for every list of 4 corners the rectangularity score lies in [0, 1],
\* and it is 1 exactly when all four angles are right angles and opposite
\* sides have equal length; otherwise it is strictly smaller.
C10_RectangularityScore ==
    (scoreres.status = "returned" /\ Len(corners) = 4) =>
        /\ scoreres.value >= 0
        /\ scoreres.value <= ScoreOne
        /\ scoreres.value = ScoreOne <=> PerfectRectangle(corners)

\* A perfect rectangle that is not axis-aligned scores 1.
C10_Witness ==
    /\ scoreres.status = "returned"
    /\ Len(corners) = 4
    /\ PerfectRectangle(corners)
    /\ corners[1].x # corners[2].x
    /\ corners[1].y # corners[2].y
    /\ scoreres.value = ScoreOne

-----------------------------------------------------------------------------
(* Claims about markers, checked under SpecQR *)

\* The detected marker that came from the i-th barcode of the scene, as a set:
\* empty when the decoder returned none with that device id.
DetectedFor(i) ==
    {k \in 1..Len(detected.value) : detected.value[k].hostname = HostOf(i)}

\* C4: every payload the encoder produces is accepted by the decoder and
\* yields a marker with the same device id, screen type, screen_width_px,
\* screen_height_px and marker size.
C4_PayloadRoundTrip ==
    detected.status = "returned" =>
        \A i \in 1..Len(scene) :
            (scene[i].kind = "panel" /\ qrImages[i].status = "returned") =>
                \E k \in DetectedFor(i) :
                    LET d == detected.value[k]
                    IN  /\ d.screen_type = scene[i].screen.screen_type
                        /\ d.screen_width_px = scene[i].screen.width
                        /\ d.screen_height_px = scene[i].screen.height
                        /\ d.qr_size_px = qrImages[i].value.qr_size

\* The orientation in which an upright panel hangs, from the direction of its
\* marker's top edge in the photograph.
TrueRotation(e) ==
    CASE e.x > 0 /\ e.y = 0 -> 0
      [] e.x = 0 /\ e.y > 0 -> 90
      [] e.x < 0 /\ e.y = 0 -> 180
      [] OTHER -> 270

\* A synthetic layout: at least one panel, every barcode is a panel showing
\* the marker the encoder rendered for it.
SyntheticLayout ==
    /\ Len(scene) >= 1
    /\ \A i \in 1..Len(scene) :
          scene[i].kind = "panel" /\ qrImages[i].status = "returned"

\* C7: for a synthetic layout of N panels whose rendered markers are
\* photographed, detect_qr_positions followed by calculate_physical_positions
\* recovers every panel with its exact screen type and rotation.
C7_RoundTripCalibration ==
    (SyntheticLayout /\ positions # NotCalled) =>
        /\ positions.status = "returned"
        /\ \A i \in 1..Len(scene) :
              /\ HostOf(i) \in DOMAIN positions.value
              /\ positions.value[HostOf(i)].screen_type = scene[i].screen.screen_type
              /\ positions.value[HostOf(i)].rotation = TrueRotation(scene[i].edge)

\* The raw angle of a marker's top edge (corner 0 to corner 1), in [0, 360)
\* degrees, in millidegrees.
RawTopEdgeAngle(cs) ==
    Atan2MilliDeg(cs[2].y - cs[1].y, cs[2].x - cs[1].x) % Deg(360)

\* The rotation the ranges of the claim assign to a raw angle.
RangeRotation(raw) ==
    CASE raw >= Deg(315) \/ raw < Deg(45) -> 0
      [] raw >= Deg(45) /\ raw < Deg(135) -> 90
      [] raw >= Deg(135) /\ raw < Deg(225) -> 180
      [] OTHER -> 270

\* The distance between two angles on the circle, in millidegrees.
AngleDistance(a, b) ==
    LET d == (a - b) % Deg(360) IN Min(d, Deg(360) - d)

\* C8: every marker returned by detect_qr_positions has its rotation in
\* {0, 90, 180, 270}: the multiple of 90 degrees nearest to the raw top-edge
\* angle, by the ranges [315,360) and [0,45) -> 0, [45,135) -> 90,
\* [135,225) -> 180, [225,315) -> 270; and calculate_physical_positions
\* carries that rotation into the layout unchanged for every panel.
C8_QuantizedRotation ==
    /\ detected.status = "returned" =>
          \A k \in 1..Len(detected.value) :
              LET d == detected.value[k]
                  raw == RawTopEdgeAngle(d.corners)
              IN  /\ d.rotation \in {0, 90, 180, 270}
                  /\ d.rotation = RangeRotation(raw)
                  /\ AngleDistance(raw, Deg(d.rotation)) <= Deg(45)
    /\ positions.status = "returned" =>
          /\ DOMAIN positions.value
               = {detected.value[k].hostname : k \in 1..Len(detected.value)}
          /\ \A k \in 1..Len(detected.value) :
                positions.value[detected.value[k].hostname].rotation
                  = detected.value[k].rotation

\* A layout holding a marker tilted by 14 degrees read as 0 and a marker at
\* the 225-degree boundary read as 270.
C8_Witness ==
    /\ positions.status = "returned"
    /\ \E k \in 1..Len(detected.value) :
          LET d == detected.value[k]
          IN  /\ RawTopEdgeAngle(d.corners) = 14036
              /\ positions.value[d.hostname].rotation = 0
    /\ \E k \in 1..Len(detected.value) :
          LET d == detected.value[k]
          IN  /\ RawTopEdgeAngle(d.corners) = Deg(225)
              /\ positions.value[d.hostname].rotation = 270

-----------------------------------------------------------------------------
(* Claims about tiling, checked under SpecTile *)

AllTiled == scaled.status = "returned" /\ Len(tiles) = Len(tileLayout)

\* The sub-rectangle of tile t lies within the scaled image.
SubRectWithinImage(t) ==
    /\ t.rect_px.start.x >= 0
    /\ t.rect_px.start.y >= 0
    /\ t.rect_px.start.x + t.rect_px.dimensions.width <= scaled.value.width
    /\ t.rect_px.start.y + t.rect_px.dimensions.height <= scaled.value.height

\* Lengths relative to the bounding rectangle's origin, in millimetres
\* multiplied by num, where mm_to_px_ratio = num / den: a pixel coordinate p
\* mapped back is p * den, a millimetre coordinate m is m * num.
BackX(p) == p * scaled.value.den
BackY(p) == p * scaled.value.den
MmX(m) == m * scaled.value.num
MmY(m) == m * scaled.value.num

\* The breakpoints of the sub-rectangles' edges inside the bounding rectangle,
\* on one axis, and the elementary intervals between consecutive breakpoints.
BreaksX ==
    LET lim == MmX(scaled.value.bounding_rect_mm.dimensions.width)
        edges == UNION {{BackX(tiles[i].value.rect_px.start.x),
                         BackX(tiles[i].value.rect_px.start.x
                               + tiles[i].value.rect_px.dimensions.width)} :
                        i \in 1..Len(tiles)}
    IN  {0, lim} \cup {e \in edges : 0 < e /\ e < lim}

BreaksY ==
    LET lim == MmY(scaled.value.bounding_rect_mm.dimensions.height)
        edges == UNION {{BackY(tiles[i].value.rect_px.start.y),
                         BackY(tiles[i].value.rect_px.start.y
                               + tiles[i].value.rect_px.dimensions.height)} :
                        i \in 1..Len(tiles)}
    IN  {0, lim} \cup {e \in edges : 0 < e /\ e < lim}

Intervals(breaks) ==
    {<<a, b>> \in breaks \X breaks : a < b /\ ~\E c \in breaks : a < c /\ c < b}

\* The sub-rectangle of tile t, mapped back, contains the cell ix \X iy.
CoversCell(t, ix, iy) ==
    /\ BackX(t.rect_px.start.x) <= ix[1]
    /\ ix[2] <= BackX(t.rect_px.start.x + t.rect_px.dimensions.width)
    /\ BackY(t.rect_px.start.y) <= iy[1]
    /\ iy[2] <= BackY(t.rect_px.start.y + t.rect_px.dimensions.height)

UnionCoversBoundingRectangle ==
    \A ix \in Intervals(BreaksX), iy \in Intervals(BreaksY) :
        \E i \in 1..Len(tiles) : CoversCell(tiles[i].value, ix, iy)

\* C6: every panel's pixel sub-rectangle lies within the scaled image, and
\* the union of all panel sub-rectangles, mapped back through mm_to_px_ratio,
\* covers the layout's bounding rectangle.
C6_TilingCoverage ==
    AllTiled =>
        /\ \A i \in 1..Len(tiles) :
              tiles[i].status = "returned" /\ SubRectWithinImage(tiles[i].value)
        /\ UnionCoversBoundingRectangle

\* C6 as it holds: whenever the scaled image is produced, every panel's pixel
\* sub-rectangle starts inside the scaled image and reaches at most one pixel
\* past its right and bottom edges; the part cropped for the tile lies within
\* the scaled image and, mapped back through mm_to_px_ratio, within the
\* layout's bounding rectangle; the tile has the sub-rectangle's size, the
\* rest being padding.  The union of the sub-rectangles need not cover the
\* bounding rectangle.
C6_TilingWithinBounds ==
    scaled.status = "returned" =>
        \A i \in 1..Len(tiles) :
            /\ tiles[i].status = "returned"
            /\ LET t == tiles[i].value
                   x == t.rect_px.start.x
                   y == t.rect_px.start.y
                   w == t.rect_px.dimensions.width
                   h == t.rect_px.dimensions.height
                   bound == scaled.value.bounding_rect_mm.dimensions
               IN  /\ 0 <= x /\ x <= scaled.value.width
                   /\ 0 <= y /\ y <= scaled.value.height
                   /\ w >= 0 /\ h >= 0
                   /\ x + w <= scaled.value.width + 1
                   /\ y + h <= scaled.value.height + 1
                   /\ t.box.left = x /\ t.box.top = y
                   /\ t.box.left <= t.box.right /\ t.box.right <= scaled.value.width
                   /\ t.box.top <= t.box.bottom /\ t.box.bottom <= scaled.value.height
                   /\ BackX(t.box.right) <= MmX(bound.width)
                   /\ BackY(t.box.bottom) <= MmY(bound.height)
                   /\ t.size = t.rect_px.dimensions
                   /\ t.paste = Point(0, 0)
                   /\ t.padded <=> (x + w > scaled.value.width
                                      \/ y + h > scaled.value.height)

\* Two panels tiled, the second reaching one pixel past the right edge of the
\* scaled image, so that its tile is padded.
C6_Witness ==
    /\ AllTiled
    /\ Len(tiles) = 2
    /\ tiles[2].status = "returned"
    /\ tiles[2].value.padded
    /\ tiles[2].value.rect_px.start.x + tiles[2].value.rect_px.dimensions.width
         = scaled.value.width + 1

-----------------------------------------------------------------------------
(* Claims about one encoder call, checked under SpecEnc *)

\* The module count per side of the barcode that holds the payload of the
\* call's arguments.
EncModules ==
    modules_count(best_fit(TextLength(qr_data(encArgs.ip, encArgs.screen_type_name,
                                              encArgs.width, encArgs.height))))

\* The marker edge length computed for the call's arguments.
EncEdge == (3 * Min(encArgs.width, encArgs.height)) \div 4

\* C11: whenever the barcode's module count per side times 3 pixels exceeds
\* the marker edge length, the encoder call raises and returns no image (for
\* a known screen type, with the too-small error); an image that is returned
\* has at least 3 pixels per module.
C11_LegibilityFloor ==
    encImage # NotCalled =>
        /\ EncModules * 3 > EncEdge => encImage.status = "raised"
        /\ (EncModules * 3 > EncEdge /\ encArgs.screen_type_name \in SCREEN_TYPES) =>
              encImage = Raised("Exception: QR code too small")
        /\ encImage.status = "returned" =>
              encImage.value.qr_size >= EncModules * 3

\* A marker of 134 pixels is too small for the 45 modules of the long device
\* id's barcode.
C11_Witness ==
    /\ encImage = Raised("Exception: QR code too small")
    /\ encArgs.width = 1024
    /\ encArgs.height = 179
    /\ EncModules = 45

\* round(3 * m / 4), halves to the even neighbour
RoundThreeQuarters(m) ==
    LET q == (3 * m) \div 4
        r == (3 * m) % 4
    IN  IF r < 2 THEN q
        ELSE IF r > 2 THEN q + 1
        ELSE IF q % 2 = 0 THEN q ELSE q + 1

\* The marker size written into the payload of a returned image.
PayloadQrSize == json_loads(RemovePrefix(encImage.value.data)).value["qr_size_px"].n

\* C12: the marker edge length that the encoder renders and writes into the
\* payload equals round(0.75 x min(width, height)).
C12_MarkerEdgeRounded ==
    encImage.status = "returned" =>
        /\ encImage.value.qr_size = RoundThreeQuarters(Min(encArgs.width, encArgs.height))
        /\ PayloadQrSize = RoundThreeQuarters(Min(encArgs.width, encArgs.height))

\* C12 as it holds: the marker edge length that the encoder renders and
\* writes into the payload equals 0.75 x min(width, height) truncated to an
\* integer.
C12_MarkerEdgeTruncated ==
    encImage.status = "returned" =>
        /\ encImage.value.qr_size = (3 * Min(encArgs.width, encArgs.height)) \div 4
        /\ PayloadQrSize = (3 * Min(encArgs.width, encArgs.height)) \div 4

\* The 1200 x 825 panel: 618.75 is rendered and written as 618.
C12_Witness ==
    /\ encImage.status = "returned"
    /\ encArgs.width = 1200
    /\ encArgs.height = 825
    /\ encImage.value.qr_size = 618
    /\ PayloadQrSize = 618

-----------------------------------------------------------------------------
(* Foreign and malformed barcodes *)

\* A payload of the expected schema: the prefix, then a JSON object that
\* carries every field of the marker payload.
ExpectedSchema(barcode) ==
    /\ startswith(barcode.data, PREFIX)
    /\ json_loads(RemovePrefix(barcode.data)).status = "returned"
    /\ RequiredKeys \subseteq DOMAIN json_loads(RemovePrefix(barcode.data)).value

\* C13: detect_qr_positions returns exactly the markers of the barcodes whose
\* payload has the expected schema, in detection order: the k-th marker has
\* the corners and the device id of the k-th such barcode and is the marker
\* that barcode gives when it is the only one in the photograph; barcodes
\* without the prefix, with invalid JSON or with a missing field are skipped
\* and the call returns.
C13_ForeignBarcodesFiltered ==
    detected # NotCalled =>
        LET valid == SelectSeq(photo.value, ExpectedSchema)
        IN  /\ detected.status = "returned"
            /\ Len(detected.value) = Len(valid)
            /\ \A k \in 1..Len(valid) :
                   /\ detected.value[k].corners = valid[k].points
                   /\ detected.value[k].hostname =
                          json_loads(RemovePrefix(valid[k].data)).value["ip"].s
                   /\ <<detected.value[k]>> = ProcessBarcode(valid[k])

\* A photograph whose first barcode is skipped and whose second is a marker.
C13_Witness ==
    /\ detected # NotCalled
    /\ Len(photo.value) = 2
    /\ ~ExpectedSchema(photo.value[1])
    /\ ExpectedSchema(photo.value[2])
    /\ Len(detected.value) = 1
    /\ detected.value[1].corners = photo.value[2].points

-----------------------------------------------------------------------------
(* Markers of an unknown screen type *)

KnownScreenType(data) == data.screen_type \in SCREEN_TYPES

\* C14: a detected marker whose screen type is not in SCREEN_TYPES is left
\* out of the layout and does not influence the other placements: the layout
\* is the one computed from the markers of known screen types alone.
C14_UnknownScreenTypeSkipped ==
    (positions # NotCalled /\ positions.status = "returned") =>
        /\ \A k \in 1..Len(detected.value) :
               ~KnownScreenType(detected.value[k]) =>
                   detected.value[k].hostname \notin DOMAIN positions.value
        /\ positions =
               calculate_physical_positions(SelectSeq(detected.value, KnownScreenType))

-----------------------------------------------------------------------------
(* Empty input *)

\* C15: when the photograph holds no barcode, or none that is a marker,
\* detect_qr_positions returns the empty list, and calculate_physical_positions
\* on the empty list returns the empty layout; neither raises.
C15_EmptyInputIsNotAnError ==
    /\ (detected # NotCalled /\ SelectSeq(photo.value, ExpectedSchema) = <<>>) =>
           detected = Returned(<<>>)
    /\ (positions # NotCalled /\ detected.value = <<>>) =>
           (positions.status = "returned" /\ DOMAIN positions.value = {})

\* The empty photograph, and a photograph of a foreign barcode, each taken
\* through detection and reconstruction.
C15_Witness ==
    /\ positions # NotCalled
    /\ photo.value = <<>>
    /\ detected = Returned(<<>>)

C15_WitnessNoMarker ==
    /\ positions # NotCalled
    /\ photo.value # <<>>
    /\ detected = Returned(<<>>)

-----------------------------------------------------------------------------
(* The fallback to the identity transform *)

Uncorrected(out) ==
    /\ out.corrected_center = out.original.center
    /\ out.corrected_corners = out.original.corners
    /\ out.corrected_screen_corners = out.original.screen_corners

\* The (observed corner, ideal corner) pairs of a call: four for every marker
\* that has screen corners, when there are two markers or more.
PointPairs == IF Len(perspIn) >= 2 THEN actual_corners_count(perspIn) ELSE 0

FitFailed == fitCalls # <<>> /\ fitCalls[1].outcome.kind # "H"

\* C16: correct_perspective_distortion returns; with fewer than 2 markers,
\* with fewer than 4 point pairs or when the fit fails every corrected
\* center, corner and screen corner equals the observed one; with at least 4
\* point pairs cv2.findHomography is called.
C16_IdentityFallback ==
    perspOut # NotCalled =>
        /\ perspOut.status = "returned"
        /\ Len(perspOut.value) = Len(perspIn)
        /\ (Len(perspIn) < 2 \/ PointPairs < 4 \/ FitFailed) =>
               \A i \in 1..Len(perspIn) : Uncorrected(perspOut.value[i])
        /\ PointPairs >= 4 => fitCalls # <<>>

\* The part of C16 about the fallback alone.
C16_FallbackOnly ==
    perspOut # NotCalled =>
        /\ perspOut.status = "returned"
        /\ Len(perspOut.value) = Len(perspIn)
        /\ (Len(perspIn) < 2 \/ PointPairs < 4 \/ FitFailed) =>
               \A i \in 1..Len(perspIn) : Uncorrected(perspOut.value[i])

-----------------------------------------------------------------------------
(* Recalibration replaces the layout *)

HostsOf(devs) == {d.host : d \in devs}

\* The device ids of the markers detected in the photograph.
DetectedIds ==
    {detect_qr_positions(recalPhoto)[k].hostname :
         k \in 1..Len(detect_qr_positions(recalPhoto))}

\* The devices generated from the photograph when nothing was configured.
FreshDevices ==
    generate_updated_config(
        {}, calculate_physical_positions(detect_qr_positions(recalPhoto)).value).devices

-----------------------------------------------------------------------------
(* bounding_rectangle of no rectangles *)

\* C18: bounding_rectangle on an empty list of rectangles fails with the
\* dedicated error EmptyInputError and returns no rectangle.
C18_EmptyInputError ==
    (bres # NotCalled /\ rects = <<>>) => bres = Raised("EmptyInputError")

\* The part of C18 that does not name the error: the call fails and returns
\* no rectangle.
C18_EmptyInputFails ==
    (bres # NotCalled /\ rects = <<>>) => bres.status = "raised"

-----------------------------------------------------------------------------
(* ScreensaverManager.start on an active screensaver or an invalid config *)

\* The invalid configurations: no type, a gallery whose directory is missing
\* or holds no image, pixabay without an API key.
InvalidSaverConfig(config) ==
    \/ config.type = ""
    \/ config.type = "gallery" /\ config.wallpapers_dir \in {"", "/nonexistent", "/empty"}
    \/ config.type = "pixabay" /\ config.api_key = ""

\* C19: a call of start on an active screensaver or with an invalid
\* configuration raises RuntimeError, starts no worker thread and leaves
\* is_active as it was.
C19_StartRaisesRuntimeError ==
    [][\A config \in SaverConfigs :
           (SaverStart(config) /\ (ssActive \/ InvalidSaverConfig(config))) =>
               /\ ssCall' = Raised("RuntimeError")
               /\ ssStarted' = ssStarted
               /\ ssThread' = ssThread
               /\ ssActive' = ssActive]_vars

\* The part of C19 that does not name the error.
C19_StartRaisesAndChangesNothing ==
    [][\A config \in SaverConfigs :
           (SaverStart(config) /\ (ssActive \/ InvalidSaverConfig(config))) =>
               /\ ssCall'.status = "raised"
               /\ ssStarted' = ssStarted
               /\ ssThread' = ssThread
               /\ ssActive' = ssActive]_vars

-----------------------------------------------------------------------------
(* The margin of the layout *)

LayoutMinX(layout) == SetMin({layout[h].x : h \in DOMAIN layout})

LayoutMinY(layout) == SetMin({layout[h].y : h \in DOMAIN layout})

\* The device ids of the detected markers are pairwise distinct.
DistinctIds(position_data) ==
    \A j, k \in 1..Len(position_data) :
        position_data[j].hostname = position_data[k].hostname => j = k

\* C20, as stated: in the layout that calculate_physical_positions produces
\* for a non-empty list of detected markers, the minimum x and the minimum y
\* over all panels both equal the margin 20.
C20_MarginNormalization ==
    analysis.status = "returned" =>
        /\ LayoutMinX(analysis.value.positions) = 20 * Fix
        /\ LayoutMinY(analysis.value.positions) = 20 * Fix

\* C20, amended: the same when the detected markers have pairwise distinct
\* device ids; in every layout no coordinate is below 20.
C20_MarginWithDistinctIds ==
    analysis.status = "returned" =>
        /\ DistinctIds(detect_qr_positions(recalPhoto)) =>
               /\ LayoutMinX(analysis.value.positions) = 20 * Fix
               /\ LayoutMinY(analysis.value.positions) = 20 * Fix
        /\ \A h \in DOMAIN analysis.value.positions :
               /\ analysis.value.positions[h].x >= 20 * Fix
               /\ analysis.value.positions[h].y >= 20 * Fix

\* A layout of two devices, one at the margin and one away from it.
C20_Witness ==
    /\ analysis.status = "returned"
    /\ DOMAIN analysis.value.positions = {HostNames[1], HostNames[2]}
    /\ LayoutMinX(analysis.value.positions) = 20 * Fix
    /\ \E h \in DOMAIN analysis.value.positions : analysis.value.positions[h].x > 20 * Fix
    /\ \E h \in DOMAIN analysis.value.positions : analysis.value.positions[h].y > 20 * Fix

-----------------------------------------------------------------------------
(* The transport calls of one dispatch *)

\* C21: within one draw of a panel the device is queried at most once and
\* pushed to at most once; the push is issued only after the query returned
\* successfully, and a failed query or push is not retried: the task ends
\* with the counts it had at the failure.
C21_QueryThenPush ==
    op = "send" =>
        \A h \in devices :
            /\ queries[h] <= 1
            /\ pushes[h] <= 1
            /\ pushes[h] = 1 => (queries[h] = 1 /\ devFail[h] # "query")
            /\ tpc[h] = "failed" =>
                   /\ devFail[h] = "query" => (queries[h] = 1 /\ pushes[h] = 0)
                   /\ devFail[h] = "push" => (queries[h] = 1 /\ pushes[h] = 1)

\* send_image returned after one panel's query failed, another panel's push
\* failed and a third was drawn.
C21_Witness ==
    /\ op = "send"
    /\ cpc = "returned"
    /\ \E h \in devices : devFail[h] = "query" /\ queries[h] = 1 /\ pushes[h] = 0
    /\ \E h \in devices : devFail[h] = "push" /\ queries[h] = 1 /\ pushes[h] = 1
    /\ \E h \in devices : tpc[h] = "done" /\ queries[h] = 1 /\ pushes[h] = 1

-----------------------------------------------------------------------------
(* The image objects during tiling *)

\* C22: the scaled image is produced once, before any per-panel task is
\* started; a task writes only to the images it created itself and reads
\* only those and its own tile: never the scaled image, the layout or the
\* tile of another task.
C22_NoConcurrentMutation ==
    op = "send" =>
        /\ scaledMade <= 1
        /\ threads # <<>> => scaledMade = 1
        /\ \A h \in devices : \A a \in taskAccess[h] :
               /\ a.of = h
               /\ a.mode = "write" => a.obj = "local"
               /\ a.mode = "read" => a.obj \in {"tile", "local"}

\* The scaled image is not produced again once a task is started.
C22_ScaledImageStable ==
    [][threads # <<>> => scaledMade' = scaledMade]_vars

\* Two tasks that ran to the end while a third panel's query failed.
C22_Witness ==
    /\ op = "send"
    /\ cpc = "returned"
    /\ scaledMade = 1
    /\ Len(threads) = 3
    /\ \E h \in devices : tpc[h] = "done" /\ Access("write", "local", h) \in taskAccess[h]
    /\ \E h \in devices : tpc[h] = "failed" /\ taskAccess[h] = {}

-----------------------------------------------------------------------------
(* The stages of the reconstruction *)

\* C23: whenever at least 2 markers are detected, the layout that
\* calculate_physical_positions returns was computed after
\* correct_perspective_distortion was applied to the detected markers; with
\* fewer than 2 markers no correction is made.
C23_CorrectionBeforeAssembly ==
    positions # NotCalled =>
        IF Len(detected.value) >= 2
          THEN perspOut # NotCalled /\ perspIn = detected.value
          ELSE fitCalls = <<>>

-----------------------------------------------------------------------------
(* The range of calculate_qr_rotation_from_corners *)

\* C24 as stated: for every list of 4 corners the rotation computed from the
\* vector corner 0 -> corner 1 lies in [0, 360).
C24_RotationRange ==
    (rotres.status = "returned" /\ Len(corners) = 4) =>
        (0 <= rotres.value /\ rotres.value < Deg(360))

\* C24 amended: for every list of 4 corners the rotation computed from the
\* vector corner 0 -> corner 1 lies in [-45, 315); no value below -45 and no
\* value >= 315 is ever returned.
C24_RotationFromMinus45 ==
    (rotres.status = "returned" /\ Len(corners) = 4) =>
        (Deg(-45) <= rotres.value /\ rotres.value < Deg(315))

C24_Witness ==
    /\ rotres.status = "returned"
    /\ Len(corners) = 4
    /\ rotres.value < 0
    /\ rotres.value > Deg(-45)

-----------------------------------------------------------------------------
(* The pixel sub-rectangle of a panel *)

\* The four lengths in millimetres that send_image converts for panel i, and
\* the four pixel values it obtained for them.
MmComponents(i) ==
    LET rect_mm == tileLayout[i]
        bounding == scaled.value.bounding_rect_mm
    IN  << rect_mm.start.x - bounding.start.x, rect_mm.start.y - bounding.start.y,
           rect_mm.dimensions.width, rect_mm.dimensions.height >>

PxComponents(i) ==
    LET rect_px == tiles[i].value.rect_px
    IN  << rect_px.start.x, rect_px.start.y,
           rect_px.dimensions.width, rect_px.dimensions.height >>

\* r is v * num / den rounded to the nearest integer (either way at a half).
NearestInteger(r, v, num, den) ==
    /\ 2 * (r * den - v * num) <= den
    /\ 2 * (v * num - r * den) <= den

\* r is int() of the floating-point product v * (num / den): the integer part
\* of the exact product, or one less where the floating-point product of an
\* integral value falls just below it.
IntegerPart(r, v, num, den) ==
    \/ r * den <= v * num /\ v * num < (r + 1) * den
    \/ <<v, num, den>> \in FloatRoundsBelow /\ (r + 1) * den = v * num

\* C25 as stated: each panel's pixel sub-rectangle has origin
\* (position - bounding origin) x mm_to_px_ratio and size detected size x
\* mm_to_px_ratio, each component rounded to the nearest integer.
C25_SubRectangleRounded ==
    scaled.status = "returned" =>
        \A i \in 1..Len(tiles) : tiles[i].status = "returned" =>
            \A k \in 1..4 :
                NearestInteger(PxComponents(i)[k], MmComponents(i)[k],
                               scaled.value.num, scaled.value.den)

\* C25 amended: each panel's pixel sub-rectangle has origin
\* (position - bounding origin) x mm_to_px_ratio and size detected size x
\* mm_to_px_ratio, each component truncated to an integer by int().
C25_SubRectangleTruncated ==
    scaled.status = "returned" =>
        \A i \in 1..Len(tiles) : tiles[i].status = "returned" =>
            \A k \in 1..4 :
                IntegerPart(PxComponents(i)[k], MmComponents(i)[k],
                            scaled.value.num, scaled.value.den)

\* A panel whose width in pixels has a fraction above one half that is cut off.
C25_Witness ==
    /\ scaled.status = "returned"
    /\ \E i \in 1..Len(tiles) :
          /\ tiles[i].status = "returned"
          /\ LET r == PxComponents(i)[3]
                 v == MmComponents(i)[3]
             IN  /\ 2 * (v * scaled.value.num - r * scaled.value.den) > scaled.value.den
                 /\ v * scaled.value.num < (r + 1) * scaled.value.den

-----------------------------------------------------------------------------
(* Cropping with padding *)

\* What the tile of a rectangle holds at (i, j): the pixel of the scaled image
\* under it, or the background colour outside the scaled image.
ExpectedPixel(i, j) ==
    LET x == cropRect.start.x + i
        y == cropRect.start.y + j
    IN  IF 0 <= x /\ x < cropImage.width /\ 0 <= y /\ y < cropImage.height
          THEN ImagePixel(x, y)
          ELSE White

\* The tile returned has the rectangle's size, the pixels of the scaled image
\* at their offsets and the background colour elsewhere.
TileAsExpected ==
    /\ cropOut.value.size = cropRect.dimensions
    /\ \A i \in 0..(cropRect.dimensions.width - 1), j \in 0..(cropRect.dimensions.height - 1) :
          TilePixel(cropOut.value, i, j) = ExpectedPixel(i, j)

C26_TileWhenReturned ==
    cropOut.status = "returned" => TileAsExpected

-----------------------------------------------------------------------------
(* The last image of the web UI *)

\* C27: the upload handler records the image as the last sent image only if
\* sending it to the panels succeeded; when the dispatch to any panel failed,
\* the last-image state is left unchanged.
C27_LastImageAfterSuccessOnly ==
    last_image_state = "uploaded" => \A h \in devices : tpc[h] = "done"

\* A send that raised before any dispatch leaves the last image alone.
C27_RaisedSendKeepsLastImage ==
    (flash # "nothing" /\ cpc = "raised") => last_image_state = "previous"

-----------------------------------------------------------------------------
(* The screensaver's worker threads *)

\* C28: at most one screensaver worker thread is executing the send loop at
\* any time, and once stop() has returned the worker it stopped sends no
\* further image, also when it was inside image_sender for longer than the
\* stop timeout and start() is called again right afterwards.
C28_SingleWorker ==
    /\ Cardinality({w \in Workers : is_alive(w)}) <= 1
    /\ sent_after_stop = {}

\* Without a second start, a worker whose stop() has returned enters
\* image_sender no more.
C28_StoppedWorkerWithoutRestart ==
    (\A w \in Workers : w > 1 => wpc[w] = "unborn") => sent_after_stop = {}

-----------------------------------------------------------------------------
(* The streamed output of a process *)

\* C29: each line placed on the output queue, the closing line included, is
\* delivered to the client before the 'finished' event, the event is emitted
\* exactly once, and the stream ends after the process has finished or been
\* stopped.
C29_StreamComplete ==
    /\ events <= 1
    /\ client_pc = "done" =>
          /\ events = 1
          /\ sp_finished
          /\ sp_process = "exited"
          /\ delivered = placed

\* The same for a process that nobody stops.
C29_StreamCompleteWithoutStop ==
    (client_pc = "done" /\ stopper_pc = "idle") => delivered = placed

\* The event is emitted once, at the end of the stream, after the process has
\* ended, and the client received the lines in the order they were placed.
C29_FinishedOnce ==
    /\ events <= 1
    /\ client_pc = "done" <=> events = 1
    /\ client_pc = "done" => (sp_finished /\ sp_process = "exited")
    /\ Len(delivered) <= Len(placed)
    /\ \A i \in 1..Len(delivered) : delivered[i] = placed[i]

-----------------------------------------------------------------------------
(* The statuses of the device monitor *)

\* C30: after each poll of a monitored device its status has online = true if
\* and only if the info query succeeded in that poll; a device whose query
\* failed or timed out is offline with last_error set and response_time_ms
\* cleared.
C30_StatusTruthful ==
    \A h \in DOMAIN device_statuses :
        last_query[h] # "none" =>
            /\ device_statuses[h].online <=> last_query[h] = "ok"
            /\ last_query[h] # "ok" =>
                  /\ device_statuses[h].last_error # "None"
                  /\ device_statuses[h].response_time_ms = "None"

\* A device whose info query succeeded is online, without an error and with
\* a response time.
C30_OnlineAfterSuccess ==
    \A h \in DOMAIN device_statuses :
        last_query[h] = "ok" =>
            /\ device_statuses[h].online
            /\ device_statuses[h].last_error = "None"
            /\ device_statuses[h].response_time_ms = "set"

=============================================================================
